---- MODULE Spec2Model ----
(***************************************************************************)
(* State-machine model of the statistical core of movie-ratings-analysis:  *)
(* the cutoff hypothesis tester (src/src/rating_analysis.py) and the       *)
(* manipulation detectors (src/src/manipulation_detection.py).             *)
(*                                                                         *)
(* Numbers.  Ratings are integers (rating points).  Every derived float is *)
(* an exact value: a record [k, s, v] with k = "nan", "inf" or "fin", s    *)
(* the sign and v a normalised rational [n, d].  Means, variances and      *)
(* differences are "plain" floats (value v); standard deviations, Cohen's  *)
(* d and t statistics are "root" floats (value s * sqrt(v)), so that the   *)
(* square roots of the source never have to be approximated.  p-values     *)
(* come out of scipy's distribution functions; they are modelled as the    *)
(* library's answer, an integer number of thousandths drawn from a small   *)
(* set, NaN where the library's input is degenerate.                       *)
(***************************************************************************)
EXTENDS Integers, Sequences, FiniteSets, TLC

VARIABLES
    master,     \* the caller's DataFrame: a sequence of rows
    columns,    \* the column names of the caller's DataFrame
    result      \* what the last analysis call returned (or raised)

vars == <<master, columns, result>>

-----------------------------------------------------------------------------
(* Bounds of the model.                                                    *)

\* rows of the dataset in the cutoff specifications
MaxRows == 5

-----------------------------------------------------------------------------
(* Exact arithmetic.                                                       *)

Abs(x) == IF x < 0 THEN -x ELSE x

Sign(x) == IF x < 0 THEN -1 ELSE IF x > 0 THEN 1 ELSE 0

RECURSIVE Gcd(_, _)
Gcd(a, b) == IF b = 0 THEN a ELSE Gcd(b, a % b)

\* the rational n/d (d # 0), normalised: d > 0 and gcd(n, d) = 1
Rat(n, d) ==
    LET g == Gcd(Abs(n), Abs(d))
        sg == IF d < 0 THEN -1 ELSE 1
    IN  [n |-> sg * (n \div g), d |-> sg * (d \div g)]

RAdd(a, b) == Rat(a.n * b.d + b.n * a.d, a.d * b.d)
RSub(a, b) == Rat(a.n * b.d - b.n * a.d, a.d * b.d)
RMul(a, b) == Rat(a.n * b.n, a.d * b.d)
RDiv(a, b) == Rat(a.n * b.d, a.d * b.n)
RLt(a, b) == a.n * b.d < b.n * a.d
RInt(i) == Rat(i, 1)

\* a missing cell of the table (pandas NaN / None)
NaN == -1

notna(x) == x # NaN

\* comparisons of a column cell with a number: False on a missing cell
Ge(x, c) == notna(x) /\ x >= c
Le(x, c) == notna(x) /\ x <= c
Lt(x, c) == notna(x) /\ x < c
Gt(x, c) == notna(x) /\ x > c

\* floats
FNaN == [k |-> "nan", s |-> 0, v |-> RInt(0)]
FInf(sg) == [k |-> "inf", s |-> sg, v |-> RInt(0)]
\* the plain float of value r
Fin(r) == [k |-> "fin", s |-> Sign(r.n), v |-> r]
\* the root float of value sg * sqrt(r), r >= 0
Root(sg, r) == [k |-> "fin", s |-> IF r.n = 0 THEN 0 ELSE sg, v |-> r]

isnan(x) == x.k = "nan"

\* x > 0 and x < 0 as IEEE comparisons (False on NaN), plain or root floats
FPos(x) == x.k # "nan" /\ x.s > 0
FNeg(x) == x.k # "nan" /\ x.s < 0

\* x - y, x + y on plain finite-or-NaN floats
FSub(x, y) == IF isnan(x) \/ isnan(y) THEN FNaN ELSE Fin(RSub(x.v, y.v))
FAdd(x, y) == IF isnan(x) \/ isnan(y) THEN FNaN ELSE Fin(RAdd(x.v, y.v))
\* x / c for a plain float and an integer c > 0
FDivInt(x, c) == IF isnan(x) THEN FNaN ELSE Fin(RDiv(x.v, RInt(c)))
\* x > y on plain finite-or-NaN floats
FGt(x, y) == ~isnan(x) /\ ~isnan(y) /\ RLt(y.v, x.v)

\* np.sqrt of a plain float x >= 0
sqrt(x) == IF isnan(x) THEN FNaN ELSE Root(1, x.v)

\* numpy's x / sqrt(q) for plain floats x and q >= 0: a root float; a zero
\* divisor gives +-inf, or NaN for 0/0
DivBySqrt(x, q) ==
    IF isnan(x) \/ isnan(q) THEN FNaN
    ELSE IF q.v.n = 0
         THEN (IF x.s = 0 THEN FNaN ELSE FInf(x.s))
         ELSE Root(x.s, RDiv(RMul(x.v, x.v), q.v))

-----------------------------------------------------------------------------
(* pandas Series of ratings: a sequence of integers.                       *)

RECURSIVE SeqSum(_)
SeqSum(s) ==
    IF Len(s) = 0 THEN 0
    ELSE IF Len(s) = 1 THEN s[1]
    ELSE SeqSum(SubSeq(s, 1, Len(s) \div 2))
         + SeqSum(SubSeq(s, Len(s) \div 2 + 1, Len(s)))

SeqSumSq(s) == SeqSum([i \in 1..Len(s) |-> s[i] * s[i]])

\* Series.mean(): NaN on an empty Series
mean(s) == IF Len(s) = 0 THEN FNaN ELSE Fin(Rat(SeqSum(s), Len(s)))

\* Series.std()**2, the sample variance (ddof = 1): NaN below two values
var(s) ==
    LET n == Len(s)
    IN  IF n < 2 THEN FNaN
        ELSE Fin(Rat(n * SeqSumSq(s) - SeqSum(s) * SeqSum(s), n * (n - 1)))

\* Series.std()
std(s) == sqrt(var(s))

\* the row labels 1..Len(df) of a table, in order
Index(df) == [i \in 1..Len(df) |-> i]

\* the imdb_rating column of the rows idx (a sequence of row labels) of df
Ratings(df, idx) == [j \in 1..Len(idx) |-> df[idx[j]].imdb_rating]

\* the set of the elements of a sequence
Range(s) == {s[i] : i \in 1..Len(s)}

-----------------------------------------------------------------------------
(* scipy.stats.ttest_ind(a, b, equal_var): the t statistic.                *)

\* pooled (Student) denominator squared: svar * (1/n1 + 1/n2)
PooledDenomSq(a, b) ==
    LET n1 == Len(a)
        n2 == Len(b)
        v1 == var(a)
        v2 == var(b)
    IN  IF isnan(v1) \/ isnan(v2) THEN FNaN
        ELSE Fin(RMul(RDiv(RAdd(RMul(RInt(n1 - 1), v1.v), RMul(RInt(n2 - 1), v2.v)),
                           RInt(n1 + n2 - 2)),
                      Rat(n1 + n2, n1 * n2)))

\* unequal-variance (Welch) denominator squared: v1/n1 + v2/n2
WelchDenomSq(a, b) ==
    LET v1 == var(a)
        v2 == var(b)
    IN  IF isnan(v1) \/ isnan(v2) THEN FNaN
        ELSE Fin(RAdd(RDiv(v1.v, RInt(Len(a))), RDiv(v2.v, RInt(Len(b)))))

ttest_ind(a, b, equal_var) ==
    IF Len(a) = 0 \/ Len(b) = 0 THEN FNaN
    ELSE DivBySqrt(FSub(mean(a), mean(b)),
                   IF equal_var THEN PooledDenomSq(a, b) ELSE WelchDenomSq(a, b))

\* the p-values the library can answer, in thousandths
PVals == {5, 50}

\* the two-sided p-value of a t statistic: NaN for NaN, 0 for +-inf, else
\* the t distribution's answer
TPValues(t) ==
    IF isnan(t) THEN {NaN} ELSE IF t.k = "inf" THEN {0} ELSE PVals

\* The two-sided p-values, among vals, that the unequal-variance test can
\* answer for the statistic t of two samples of at least five values each (at
\* least four degrees of freedom): NaN for NaN, 0 for +-inf, below 0.01 from
\* |t| = 5 on, below 0.05 from |t| = 4 on, above 0.3 up to |t| = 1, below 0.37
\* in between.
WelchPValues(t, vals) ==
    IF isnan(t) THEN {NaN}
    ELSE IF t.k = "inf" THEN {0}
    ELSE IF ~RLt(t.v, RInt(25)) THEN {p \in vals : p < 10}
    ELSE IF ~RLt(t.v, RInt(16)) THEN {p \in vals : p < 50}
    ELSE IF ~RLt(RInt(1), t.v) THEN {p \in vals : p > 300}
    ELSE {p \in vals : p < 370}

\* The same for two samples of at least ten values each (at least nine
\* degrees of freedom): below 0.01 from |t| = 4 on.
WelchPValuesOfTen(t, vals) ==
    IF t.k = "fin" /\ ~RLt(t.v, RInt(16)) THEN {p \in vals : p < 10}
    ELSE WelchPValues(t, vals)

-----------------------------------------------------------------------------
(* rating_analysis.test_cutoff_hypothesis                                  *)

\* the rows that pass the vote, rating and year-window filter
Filtered(df, min_votes) ==
    SelectSeq(Index(df), LAMBDA i :
        /\ Ge(df[i].num_votes, min_votes)
        /\ notna(df[i].imdb_rating)
        /\ Ge(df[i].year, 1980)
        /\ Le(df[i].year, 2024))

Before(df, cutoff_year, min_votes) ==
    SelectSeq(Filtered(df, min_votes), LAMBDA i : Lt(df[i].year, cutoff_year))

\* After with the cutoff year itself left out (year > cutoff)
After_strict(df, cutoff_year, min_votes) ==
    SelectSeq(Filtered(df, min_votes), LAMBDA i : Gt(df[i].year, cutoff_year))

After(df, cutoff_year, min_votes) ==
    SelectSeq(Filtered(df, min_votes), LAMBDA i : Ge(df[i].year, cutoff_year))

\* the t-test of the cutoff tester
CutoffTTest(before, after) == ttest_ind(before, after, TRUE)

\* Cohen's d of the cutoff tester
CutoffCohensD(before, after) ==
    LET pooled_sq == FDivInt(FAdd(var(before), var(after)), 2)
    IN  DivBySqrt(FSub(mean(after), mean(before)), pooled_sq)

\* What scipy answers for one before/after pair: the three p-values, and
\* whether ks_2samp raises ValueError on an empty sample (scipy 1.3 to 1.8
\* does; later releases return NaN).  levene gives NaN on an empty sample
\* and may give NaN when no group has any spread.
LibAnswers(before, after) ==
    LET empty == Len(before) = 0 \/ Len(after) = 0
    IN  IF empty
        THEN {[t_pvalue |-> NaN, levene_pvalue |-> NaN, ks_pvalue |-> NaN,
               ks_raises |-> r] : r \in BOOLEAN}
        ELSE [t_pvalue : TPValues(CutoffTTest(before, after)),
              levene_pvalue : PVals \cup {NaN},
              ks_pvalue : PVals,
              ks_raises : {FALSE}]

\* the result dictionary, from the two partitions (row labels and ratings)
CutoffResult(cutoff_year, min_votes, before_idx, after_idx, before, after, lib) ==
    IF lib.ks_raises
    THEN [op |-> "test_cutoff_hypothesis", raised |-> "ValueError",
          cutoff_year |-> cutoff_year, min_votes |-> min_votes]
    ELSE [op |-> "test_cutoff_hypothesis", raised |-> "none",
          cutoff_year |-> cutoff_year, min_votes |-> min_votes,
          before |-> before_idx, after |-> after_idx,
          n_before |-> Len(before), n_after |-> Len(after),
          mean_before |-> mean(before), mean_after |-> mean(after),
          mean_diff |-> FSub(mean(after), mean(before)),
          std_before |-> std(before), std_after |-> std(after),
          t_statistic |-> CutoffTTest(before, after),
          t_pvalue |-> lib.t_pvalue,
          levene_pvalue |-> lib.levene_pvalue,
          ks_pvalue |-> lib.ks_pvalue,
          cohens_d |-> CutoffCohensD(before, after)]

test_cutoff_hypothesis(df, cutoff_year, min_votes, lib) ==
    CutoffResult(cutoff_year, min_votes,
                 Before(df, cutoff_year, min_votes), After(df, cutoff_year, min_votes),
                 Ratings(df, Before(df, cutoff_year, min_votes)),
                 Ratings(df, After(df, cutoff_year, min_votes)), lib)

-----------------------------------------------------------------------------
(* The dataset.                                                            *)

\* the columns of the table load_master_with_metadata returns
MasterColumns ==
    {"imdb_id", "title", "adult", "year", "runtime", "genres", "imdb_rating",
     "num_votes", "decade", "era", "rating_category"}

\* a missing title
NullTitle == <<"NaN">>

\* a row of master; a title is a sequence of characters
TitledRow(y, r, v, g, t) ==
    [year |-> y, imdb_rating |-> r, num_votes |-> v, genres |-> g, title |-> t]

Row(y, r, v, g) == TitledRow(y, r, v, g, <<"b", "b">>)

\* the rows the cutoff specification draws its datasets from, in the order
\* they are loaded: the first four fail one filter each
CutoffRowTypes ==
    << Row(1979, 7, 1000, <<"Drama">>), Row(2025, 7, 1000, <<"Drama">>),
       Row(2008, NaN, NaN, <<"Drama">>), Row(2008, 7, 999, <<"Drama">>),
       Row(1980, 6, 1000, <<"Drama">>), Row(1980, 8, 1000, <<"Drama">>),
       Row(2008, 6, 1000, <<"Drama">>), Row(2008, 8, 2000, <<"Drama">>),
       Row(2024, 6, 1000, <<"Drama">>), Row(2024, 8, 1000, <<"Drama">>) >>

TypeOf(types, row) == CHOOSE k \in 1..Len(types) : types[k] = row

\* one more row of the input files is read into the table; the tables are
\* enumerated up to the order of their rows
LoadRow(types, max) ==
    /\ result.op = "none"
    /\ Len(master) < max
    /\ \E k \in 1..Len(types) :
        /\ IF master = <<>> THEN TRUE ELSE TypeOf(types, master[Len(master)]) <= k
        /\ master' = Append(master, types[k])
    /\ UNCHANGED <<columns, result>>

NoResult == [op |-> "none"]

Init ==
    /\ master = <<>>
    /\ columns = MasterColumns
    /\ result = NoResult

-----------------------------------------------------------------------------
(* The cutoff specification: single calls of test_cutoff_hypothesis.       *)

CutoffArgs == {2008, 2020}
MinVotesArgs == {1000}

LoadCutoffRow == LoadRow(CutoffRowTypes, MaxRows)

\* The analysis functions keep no state between calls and the result of a call
\* replaces the previous one, so a behaviour makes one call on the loaded table.
TestCutoffHypothesis ==
    /\ result.op = "none"
    /\ \E cutoff_year \in CutoffArgs, min_votes \in MinVotesArgs :
        \E lib \in LibAnswers(Ratings(master, Before(master, cutoff_year, min_votes)),
                              Ratings(master, After(master, cutoff_year, min_votes))) :
            /\ result' = test_cutoff_hypothesis(master, cutoff_year, min_votes, lib)
            /\ UNCHANGED <<master, columns>>

NextCutoff == LoadCutoffRow \/ TestCutoffHypothesis

Spec == Init /\ [][NextCutoff]_vars

-----------------------------------------------------------------------------
(* rating_analysis.compare_all_cutoffs                                     *)

cutoff_years == <<2000, 2008, 2012, 2018, 2020>>

\* rank with the largest value first (ascending=False)
rank_descending(col) ==
    [i \in 1..Len(col) |->
        IF col[i] = NaN THEN FNaN
        ELSE LET more == Cardinality({j \in 1..Len(col) : notna(col[j]) /\ col[j] > col[i]})
                 ties == Cardinality({j \in 1..Len(col) : col[j] = col[i]})
             IN  Fin(Rat(2 * more + ties + 1, 2))]

\* Series.rank(): ascending, ties share the average of their positions, a
\* NaN is left unranked
rank(col) ==
    [i \in 1..Len(col) |->
        IF col[i] = NaN THEN FNaN
        ELSE LET less == Cardinality({j \in 1..Len(col) : notna(col[j]) /\ col[j] < col[i]})
                 ties == Cardinality({j \in 1..Len(col) : col[j] = col[i]})
             IN  \* the positions less+1 .. less+ties, averaged
                 Fin(Rat(2 * less + ties + 1, 2))]

combined_rank(t_rank, levene_rank, ks_rank) ==
    FDivInt(FAdd(FAdd(t_rank, levene_rank), ks_rank), 3)

Perms(n) == {f \in [1..n -> 1..n] : \A i, j \in 1..n : i # j => f[i] # f[j]}

CutoffPerms == Perms(Len(cutoff_years))

\* ord lists the labels of keys (plain floats) in ascending order of key, the
\* NaN keys last in their original order
Ascending(keys, ord) ==
    \A a, b \in 1..Len(ord) : a < b =>
        LET x == keys[ord[a]]
            y == keys[ord[b]]
        IN  /\ ~(isnan(x) /\ ~isnan(y))
            /\ (isnan(x) /\ isnan(y)) => ord[a] < ord[b]
            /\ (~isnan(x) /\ ~isnan(y)) => ~RLt(y.v, x.v)

\* DataFrame.sort_values(by) with the default kind='quicksort', which is not
\* a stable sort: the orders in which the rows can come back.  Rows of equal
\* key come back in an order that depends on numpy's build.
sort_values(keys, perms) == {ord \in perms : Ascending(keys, ord)}

\* scipy answers the same for the same two samples: the answers it can give
\* for candidate k, given its answer prev for candidate k - 1
NextLib(df, min_votes, k, prev) ==
    IF /\ k > 1
       /\ Before(df, cutoff_years[k - 1], min_votes) = Before(df, cutoff_years[k], min_votes)
       /\ After(df, cutoff_years[k - 1], min_votes) = After(df, cutoff_years[k], min_votes)
    THEN {prev}
    ELSE LibAnswers(Ratings(df, Before(df, cutoff_years[k], min_votes)),
                    Ratings(df, After(df, cutoff_years[k], min_votes)))

\* the rows of the table with their ranks, in candidate order
RankRows(results, t_rank, levene_rank, ks_rank) ==
    [i \in 1..Len(results) |->
        [label |-> i,
         cutoff_year |-> results[i].cutoff_year,
         n_before |-> results[i].n_before,
         n_after |-> results[i].n_after,
         mean_diff |-> results[i].mean_diff,
         cohens_d |-> results[i].cohens_d,
         t_pvalue |-> results[i].t_pvalue,
         levene_pvalue |-> results[i].levene_pvalue,
         ks_pvalue |-> results[i].ks_pvalue,
         t_rank |-> t_rank[i],
         levene_rank |-> levene_rank[i],
         ks_rank |-> ks_rank[i],
         combined_rank |-> combined_rank(t_rank[i], levene_rank[i], ks_rank[i])]]

\* the table before the final sort (empty when a call raised)
RankTable(results) ==
    IF \E i \in 1..Len(results) : results[i].raised # "none"
    THEN <<>>
    ELSE RankRows(results,
                  rank([i \in 1..Len(results) |-> results[i].t_pvalue]),
                  rank([i \in 1..Len(results) |-> results[i].levene_pvalue]),
                  rank([i \in 1..Len(results) |-> results[i].ks_pvalue]))

CutoffTable(df, min_votes, libs) ==
    RankTable([i \in 1..Len(cutoff_years) |->
                  test_cutoff_hypothesis(df, cutoff_years[i], min_votes, libs[i])])

\* the orders the final sort can give the table
CutoffOrders(table) ==
    IF table = <<>> THEN {<<>>}
    ELSE sort_values([i \in 1..Len(table) |-> table[i].combined_rank], CutoffPerms)

\* the table as returned, its rows in the order ord
SortedTable(table, min_votes, ord) ==
    IF table = <<>>
    THEN [op |-> "compare_all_cutoffs", raised |-> "ValueError", min_votes |-> min_votes]
    ELSE [op |-> "compare_all_cutoffs", raised |-> "none", min_votes |-> min_votes,
          rows |-> [a \in 1..Len(table) |-> table[ord[a]]]]

compare_all_cutoffs(df, min_votes, libs, ord) ==
    SortedTable(CutoffTable(df, min_votes, libs), min_votes, ord)

-----------------------------------------------------------------------------
(* The comparison specification: calls of compare_all_cutoffs.             *)

CompareRowTypes ==
    << Row(1990, 6, 1000, <<"Drama">>), Row(1990, 8, 1000, <<"Drama">>),
       Row(2010, 8, 1000, <<"Drama">>),
       Row(2022, 6, 1000, <<"Drama">>), Row(2022, 8, 1000, <<"Drama">>) >>

LoadCompareRow == LoadRow(CompareRowTypes, MaxRows)

\* the final sort and the return, for the table the loop has built
ReturnSorted(table, min_votes) ==
    \E ord \in CutoffOrders(table) :
        /\ result' = SortedTable(table, min_votes, ord)
        /\ UNCHANGED <<master, columns>>

CompareAllCutoffs ==
    /\ result.op = "none"
    /\ \E min_votes \in MinVotesArgs :
        \E l1 \in NextLib(master, min_votes, 1, NoResult) :
        \E l2 \in NextLib(master, min_votes, 2, l1) :
        \E l3 \in NextLib(master, min_votes, 3, l2) :
        \E l4 \in NextLib(master, min_votes, 4, l3) :
        \E l5 \in NextLib(master, min_votes, 5, l4) :
            ReturnSorted(CutoffTable(master, min_votes, <<l1, l2, l3, l4, l5>>), min_votes)

NextCompare == LoadCompareRow \/ CompareAllCutoffs

SpecCompare == Init /\ [][NextCompare]_vars

-----------------------------------------------------------------------------
(* manipulation_detection.analyze_genre_anomalies                          *)

RECENT_YEARS == <<2019, 2024>>

MIN_MOVIES_PER_GENRE == 10

\* a missing genre (NaN in the genres column, or in an exploded row)
NullGenre == "NaN"

\* Series.between(left, right): both ends included, False on a NaN
between(x, left, right) == Ge(x, left) /\ Le(x, right)

\* the rows of the recent period
Recent(df, years_range) ==
    SelectSeq(Index(df), LAMBDA i : between(df[i].year, years_range[1], years_range[2]))

\* the rows of the historical period
Historical(df, years_range) ==
    SelectSeq(Index(df), LAMBDA i : Lt(df[i].year, years_range[1]))

\* the rows idx with the first genre of each list only
explode_first(df, idx) ==
    [j \in 1..Len(idx) |->
        [row |-> idx[j],
         genres |-> IF df[idx[j]].genres = <<>> THEN NullGenre
                    ELSE df[idx[j]].genres[1]]]

\* DataFrame.explode('genres') of the rows idx: one row per list element, one
\* row with a missing genre for a row without a list
RECURSIVE explode(_, _)
explode(df, idx) ==
    IF Len(idx) = 0 THEN <<>>
    ELSE IF Len(idx) = 1
    THEN LET i == idx[1]
             g == df[i].genres
         IN  IF g = <<>>
             THEN << [row |-> i, genres |-> NullGenre] >>
             ELSE [j \in 1..Len(g) |-> [row |-> i, genres |-> g[j]]]
    ELSE explode(df, SubSeq(idx, 1, Len(idx) \div 2))
         \o explode(df, SubSeq(idx, Len(idx) \div 2 + 1, Len(idx)))

\* the genres the loop visits: recent_exploded['genres'].dropna().unique()
GenresObserved(recent_exploded) ==
    {recent_exploded[j].genres : j \in 1..Len(recent_exploded)} \ {NullGenre}

\* exploded[exploded['genres'] == genre]['imdb_rating'].dropna()
GenreRatings(df, exploded, genre) ==
    LET rows == SelectSeq(exploded, LAMBDA e :
                    e.genres = genre /\ notna(df[e.row].imdb_rating))
    IN  [j \in 1..Len(rows) |-> df[rows[j].row].imdb_rating]

\* the floor with "and" for "or": a genre is skipped only when both sides
\* are short
BelowFloor_both(n_recent, n_hist) ==
    n_recent < MIN_MOVIES_PER_GENRE /\ n_hist < MIN_MOVIES_PER_GENRE

\* the test that skips a genre
BelowFloor(n_recent, n_hist) ==
    n_recent < MIN_MOVIES_PER_GENRE \/ n_hist < MIN_MOVIES_PER_GENRE

\* the t-test of the genre detector
GenreTTest(recent_genre, hist_genre) == ttest_ind(recent_genre, hist_genre, FALSE)

\* diff / pooled_std if pooled_std > 0 else 0
GenreCohensD(recent_genre, hist_genre) ==
    LET pooled_sq == FDivInt(FAdd(var(recent_genre), var(hist_genre)), 2)
    IN  IF ~isnan(pooled_sq) /\ pooled_sq.v.n > 0
        THEN DivBySqrt(FSub(mean(recent_genre), mean(hist_genre)), pooled_sq)
        ELSE Fin(RInt(0))

\* abs(x) < c for a root float x and a rational c > 0 (False on NaN)
AbsLt(x, c) == x.k = "fin" /\ RLt(x.v, RMul(c, c))

\* abs(x) > c for a root float x and a rational c > 0 (False on NaN)
AbsGt(x, c) == x.k = "inf" \/ (x.k = "fin" /\ RLt(RMul(c, c), x.v))

\* the label with 'small' up to 0.8 and 'medium' up to 1.2
_effect_size_label_shifted(cohens_d) ==
    IF AbsLt(cohens_d, Rat(1, 5)) THEN "negligible"
    ELSE IF AbsLt(cohens_d, Rat(4, 5)) THEN "small"
    ELSE IF AbsLt(cohens_d, Rat(6, 5)) THEN "medium"
    ELSE "large"

\* the label from cohens_d itself, without abs()
_effect_size_label_signed(cohens_d) ==
    IF cohens_d.k = "fin" /\ (cohens_d.s <= 0 \/ RLt(cohens_d.v, Rat(1, 25)))
    THEN "negligible"
    ELSE IF cohens_d.k = "fin" /\ RLt(cohens_d.v, Rat(1, 4)) THEN "small"
    ELSE IF cohens_d.k = "fin" /\ RLt(cohens_d.v, Rat(16, 25)) THEN "medium"
    ELSE "large"

_effect_size_label(cohens_d) ==
    IF AbsLt(cohens_d, Rat(1, 5)) THEN "negligible"
    ELSE IF AbsLt(cohens_d, Rat(1, 2)) THEN "small"
    ELSE IF AbsLt(cohens_d, Rat(4, 5)) THEN "medium"
    ELSE "large"

\* the flag with "or" for "and"
Suspicious_either(cohens_d, p_value) == AbsGt(cohens_d, Rat(1, 2)) \/ Lt(p_value, 10)

\* abs(cohens_d) > 0.5 and p_value < 0.01 (p-values in thousandths)
Suspicious(cohens_d, p_value) == AbsGt(cohens_d, Rat(1, 2)) /\ Lt(p_value, 10)

\* the p-values the t distribution can answer for a genre, in thousandths
GenrePVals == {5, 10, 500}

\* the p-value scipy can answer for a genre's two samples
GenrePValues(recent_genre, hist_genre) ==
    WelchPValuesOfTen(GenreTTest(recent_genre, hist_genre), GenrePVals)

\* one row of the result
GenreRow(genre, recent_genre, hist_genre, p_value) ==
    [genre |-> genre,
     recent_mean |-> mean(recent_genre),
     historical_mean |-> mean(hist_genre),
     difference |-> FSub(mean(recent_genre), mean(hist_genre)),
     recent_count |-> Len(recent_genre),
     historical_count |-> Len(hist_genre),
     t_statistic |-> GenreTTest(recent_genre, hist_genre),
     p_value |-> p_value,
     cohens_d |-> GenreCohensD(recent_genre, hist_genre),
     effect_size_label |-> _effect_size_label(GenreCohensD(recent_genre, hist_genre)),
     suspicious |-> Suspicious(GenreCohensD(recent_genre, hist_genre), p_value)]

\* the genres that get a row
GenresKept(df, recent_exploded, historical_exploded) ==
    {g \in GenresObserved(recent_exploded) :
        ~BelowFloor(Len(GenreRatings(df, recent_exploded, g)),
                    Len(GenreRatings(df, historical_exploded, g)))}

\* the tables the loop can build: for every kept genre a row, with one of the
\* p-values scipy can answer
GenreTables(df, recent_exploded, historical_exploded, kept) ==
    {[g \in kept |-> GenreRow(g, GenreRatings(df, recent_exploded, g),
                              GenreRatings(df, historical_exploded, g), p[g])] :
        p \in {q \in [kept -> GenrePVals \cup {0, NaN}] :
                  \A g \in kept :
                      q[g] \in GenrePValues(GenreRatings(df, recent_exploded, g),
                                            GenreRatings(df, historical_exploded, g))}}

\* x < y for root floats that are not NaN
RootLt(x, y) ==
    IF x.k = "inf" \/ y.k = "inf"
    THEN (IF x.k = "inf" /\ y.k = "inf" THEN x.s < y.s
          ELSE IF x.k = "inf" THEN x.s < 0 ELSE y.s > 0)
    ELSE RLt(Rat(x.s * x.v.n, x.v.d), Rat(y.s * y.v.n, y.v.d))

\* sort_values('cohens_d', ascending=False) with the default kind: the
\* orders in which the genres of the table can come back
GenreOrders(table) ==
    {ord \in [1..Cardinality(DOMAIN table) -> DOMAIN table] :
        /\ \A a, b \in DOMAIN ord : a # b => ord[a] # ord[b]
        /\ \A a, b \in DOMAIN ord :
               a < b => ~RootLt(table[ord[a]].cohens_d, table[ord[b]].cohens_d)}

\* the DataFrame returned; DataFrame([]) has no column 'cohens_d' to sort by
SortedGenres(table, years_range, ord) ==
    IF DOMAIN table = {}
    THEN [op |-> "analyze_genre_anomalies", raised |-> "KeyError",
          years_range |-> years_range]
    ELSE [op |-> "analyze_genre_anomalies", raised |-> "none",
          years_range |-> years_range,
          rows |-> [a \in DOMAIN ord |-> table[ord[a]]]]

-----------------------------------------------------------------------------
(* The genre specification: calls of analyze_genre_anomalies.              *)

\* rows of the dataset in the genre specification
MaxGenreRows == 40

GenreRangeArgs == {RECENT_YEARS, <<2020, 2024>>}

\* the rows the genre specification draws its datasets from
GenreRowTypes ==
    << Row(2018, 6, 1000, <<"Drama">>),
       Row(2000, 8, 1000, <<"Documentary", "Drama">>),
       Row(2019, 8, 1000, <<"Drama">>),
       Row(2024, 6, 1000, <<"Drama", "Documentary">>),
       Row(2020, NaN, NaN, <<"Drama">>),
       Row(2025, 8, 1000, <<"Drama">>),
       Row(2021, 7, 1000, <<>>),
       Row(NaN, 8, 1000, <<"Drama">>) >>

\* how many rows of one kind the input files hold
BlockSizes == {1, 9, 10}

\* the rows of one kind are read into the table
LoadRows(types, sizes, max) ==
    /\ result.op = "none"
    /\ \E k \in 1..Len(types), c \in sizes :
        /\ Len(master) + c <= max
        /\ IF master = <<>> THEN TRUE
           ELSE IF master[Len(master)] \in Range(types)
                THEN TypeOf(types, master[Len(master)]) < k
                ELSE FALSE
        /\ master' = master \o [j \in 1..c |-> types[k]]
    /\ UNCHANGED <<columns, result>>

LoadGenreRows == LoadRows(GenreRowTypes, BlockSizes, MaxGenreRows)

\* the loop, the final sort and the return, for the two exploded periods
ReturnGenres(df, years_range, recent_exploded, historical_exploded) ==
    \E table \in GenreTables(df, recent_exploded, historical_exploded,
                             GenresKept(df, recent_exploded, historical_exploded)) :
        \E ord \in GenreOrders(table) :
            /\ result' = SortedGenres(table, years_range, ord)
            /\ UNCHANGED <<master, columns>>

analyze_genre_anomalies(df, years_range) ==
    ReturnGenres(df, years_range, explode(df, Recent(df, years_range)),
                 explode(df, Historical(df, years_range)))

AnalyzeGenreAnomalies ==
    /\ result.op = "none"
    /\ \E years_range \in GenreRangeArgs : analyze_genre_anomalies(master, years_range)

NextGenre == LoadGenreRows \/ AnalyzeGenreAnomalies

SpecGenre == Init /\ [][NextGenre]_vars

-----------------------------------------------------------------------------
(* manipulation_detection.detect_vote_clustering                           *)

\* str(num_votes)[0] as an integer, for a vote count v >= 0
RECURSIVE first_digit(_)
first_digit(v) == IF v < 10 THEN v ELSE first_digit(v \div 10)

\* the rows of the recent period with a vote count whose first digit is not 0
RecentVotes(df, years_range) ==
    SelectSeq(Recent(df, years_range), LAMBDA i :
        notna(df[i].num_votes) /\ first_digit(df[i].num_votes) > 0)

\* value_counts().sort_index(): the first digits that occur, in ascending
\* order, each with the number of rows that have it
observed_counts(df, recent) ==
    LET count(d) == Cardinality({j \in 1..Len(recent) :
                                    first_digit(df[recent[j]].num_votes) = d})
        digits == SelectSeq(<<1, 2, 3, 4, 5, 6, 7, 8, 9>>, LAMBDA d : count(d) > 0)
    IN  [k \in 1..Len(digits) |-> [digit |-> digits[k], count |-> count(digits[k])]]

\* observed_counts / observed_counts.sum() * 100, as an array of values
observed_pct(counts, total) ==
    [k \in 1..Len(counts) |-> Fin(Rat(100 * counts[k].count, total))]

\* np.zeros(9) with observed_full[:len(observed_pct)] = observed_pct
observed_full(pct) ==
    [i \in 1..9 |-> IF i <= Len(pct) THEN pct[i] ELSE Fin(RInt(0))]

round_numbers == <<100, 500, 1000, 5000, 10000, 50000, 100000>>

\* the number of rows whose vote count is the round number num
round_counts(df, recent) ==
    [num \in Range(round_numbers) |->
        Cardinality({j \in 1..Len(recent) : df[recent[j]].num_votes = num})]

\* sum(round_counts.values())
total_round(counts) ==
    SeqSum([k \in 1..Len(round_numbers) |-> counts[round_numbers[k]]])

\* total_round / expected_random if expected_random > 0 else 0, with
\* expected_random = len(recent) * 0.001 * len(round_numbers)
clustering_ratio(total, n) ==
    IF n > 0 THEN Fin(Rat(1000 * total, Len(round_numbers) * n)) ELSE Fin(RInt(0))

\* the label with the 0.05 test first
manipulation_probability_swapped(p_value) ==
    IF Lt(p_value, 50) THEN "MEDIUM" ELSE IF Lt(p_value, 10) THEN "HIGH" ELSE "LOW"

\* 'HIGH' if p_value < 0.01 else 'MEDIUM' if p_value < 0.05 else 'LOW'
manipulation_probability(p_value) ==
    IF Lt(p_value, 10) THEN "HIGH" ELSE IF Lt(p_value, 50) THEN "MEDIUM" ELSE "LOW"

\* the verdict with "ratio >= 10" for "ratio > 10"
_benford_verdict_from_ten(p_value, ratio) ==
    IF Lt(p_value, 10) /\ ~FGt(Fin(RInt(10)), ratio)
    THEN "STRONG evidence of manipulation (Benford violation + round clustering)"
    ELSE IF Lt(p_value, 10)
    THEN "Benford violation detected - suggests artificial voting patterns"
    ELSE IF ~FGt(Fin(RInt(10)), ratio)
    THEN "Excessive round-number clustering - possible threshold gaming"
    ELSE "No strong evidence of manipulation"

_benford_verdict(p_value, ratio) ==
    IF Lt(p_value, 10) /\ FGt(ratio, Fin(RInt(10)))
    THEN "STRONG evidence of manipulation (Benford violation + round clustering)"
    ELSE IF Lt(p_value, 10)
    THEN "Benford violation detected - suggests artificial voting patterns"
    ELSE IF FGt(ratio, Fin(RInt(10)))
    THEN "Excessive round-number clustering - possible threshold gaming"
    ELSE "No strong evidence of manipulation"

\* expected percentages that are the same for every digit, in tenths
BENFORD_EXPECTED_uniform == <<111, 111, 111, 111, 111, 111, 111, 111, 112>>

\* BENFORD_EXPECTED, in tenths of a percent
BENFORD_EXPECTED == <<301, 176, 125, 97, 79, 67, 58, 51, 46>>

\* one term (o - e)^2 / e of the chi-square statistic, in hundredths and
\* rounded down, for an observed percentage o and an expected e tenths
Chi2Term(o, e) ==
    (10 * (10 * o.v.n - e * o.v.d) * (10 * o.v.n - e * o.v.d)) \div (o.v.d * o.v.d * e)

\* the statistic of stats.chisquare(observed_full, BENFORD_EXPECTED) in
\* hundredths, each of its nine terms rounded down: the statistic lies from
\* this value to less than nine hundredths above it
chi2(observed) ==
    SeqSum([i \in 1..9 |-> Chi2Term(observed[i], BENFORD_EXPECTED[i])])

\* the p-values the chi-square distribution can answer, in thousandths
BenfordPVals == {5, 10, 20, 50, 500}

\* the p-values that go with a statistic of c to c + 9 hundredths, at eight
\* degrees of freedom: p = 0.01 at 20.0902 and p = 0.05 at 15.5073
ChisquarePValues(c) ==
    {p \in BenfordPVals :
        /\ c >= 2010 => p < 10
        /\ c + 9 <= 2009 => p > 10
        /\ c >= 1551 => p < 50
        /\ c + 9 <= 1550 => p > 50}

\* What stats.chisquare(observed_full, BENFORD_EXPECTED) answers.  The expected
\* percentages sum to 100; with no row left the observed ones sum to 0, which
\* recent scipy releases refuse with a ValueError and older ones accept.
ChisquareAnswers(observed, n) ==
    [p_value : ChisquarePValues(chi2(observed)),
     raises : IF n = 0 THEN BOOLEAN ELSE {FALSE}]

\* scipy's answers for the rows kept
ChisquareOf(df, recent) ==
    ChisquareAnswers(observed_full(observed_pct(observed_counts(df, recent), Len(recent))),
                     Len(recent))

\* the result dictionary, from the rows kept and scipy's answer
VoteClusteringResult(df, years_range, recent, lib) ==
    IF lib.raises
    THEN [op |-> "detect_vote_clustering", raised |-> "ValueError",
          years_range |-> years_range]
    ELSE [op |-> "detect_vote_clustering", raised |-> "none",
          years_range |-> years_range,
          p_value |-> lib.p_value,
          benford_observed |->
              observed_full(observed_pct(observed_counts(df, recent), Len(recent))),
          round_number_counts |-> round_counts(df, recent),
          total_round_numbers |-> total_round(round_counts(df, recent)),
          clustering_ratio |->
              clustering_ratio(total_round(round_counts(df, recent)), Len(recent)),
          total_movies |-> Len(recent),
          manipulation_probability |-> manipulation_probability(lib.p_value),
          verdict |-> _benford_verdict(lib.p_value,
              clustering_ratio(total_round(round_counts(df, recent)), Len(recent)))]

detect_vote_clustering(df, years_range, lib) ==
    VoteClusteringResult(df, years_range, RecentVotes(df, years_range), lib)

-----------------------------------------------------------------------------
(* The Benford specification: calls of detect_vote_clustering.             *)

\* rows of the dataset in the Benford specification
MaxVoteRows == 4

BenfordRangeArgs == {RECENT_YEARS, <<2020, 2024>>}

\* the rows the Benford specification draws its datasets from
VoteRowTypes ==
    << Row(2019, 7, 1000, <<"Drama">>), Row(2020, 7, 1500, <<"Drama">>),
       Row(2022, 7, 30, <<"Drama">>), Row(2024, 7, 4000, <<"Drama">>),
       Row(2021, 7, 900, <<"Drama">>), Row(2021, 7, 0, <<"Drama">>),
       Row(2020, NaN, NaN, <<"Drama">>), Row(2018, 7, 2000, <<"Drama">>) >>

LoadVoteRow == LoadRow(VoteRowTypes, MaxVoteRows)

DetectVoteClustering ==
    /\ result.op = "none"
    /\ \E years_range \in BenfordRangeArgs :
        \E lib \in ChisquareOf(master, RecentVotes(master, years_range)) :
            /\ result' = detect_vote_clustering(master, years_range, lib)
            /\ UNCHANGED <<master, columns>>

NextBenford == LoadVoteRow \/ DetectVoteClustering

SpecBenford == Init /\ [][NextBenford]_vars

-----------------------------------------------------------------------------
(* manipulation_detection.analyze_documentary_manipulation                 *)

\* lambda g: 'Documentary' in g if isinstance(g, list) else False
is_doc(g) == \E j \in 1..Len(g) : g[j] = "Documentary"

\* master_df['is_doc'] = ...: the caller's table with the new column
WithIsDoc(df) == [i \in 1..Len(df) |-> df[i] @@ [is_doc |-> is_doc(df[i].genres)]]

recent_docs(df, years_range) ==
    SelectSeq(Recent(df, years_range), LAMBDA i : df[i].is_doc)

historical_docs(df, years_range) ==
    SelectSeq(Historical(df, years_range), LAMBDA i : df[i].is_doc)

\* the imdb_rating column of the rows idx without its NaN
RatingsNotNull(df, idx) ==
    Ratings(df, SelectSeq(idx, LAMBDA i : notna(df[i].imdb_rating)))

\* imdb_rating / (num_votes / 1000) of the rows idx without its NaN, for
\* positive vote counts
vote_efficiency(df, idx) ==
    LET rows == SelectSeq(idx, LAMBDA i :
                    notna(df[i].imdb_rating) /\ notna(df[i].num_votes))
    IN  [j \in 1..Len(rows) |-> Rat(1000 * df[rows[j]].imdb_rating, df[rows[j]].num_votes)]

RECURSIVE RSeqSum(_)
RSeqSum(s) ==
    IF Len(s) = 0 THEN RInt(0)
    ELSE IF Len(s) = 1 THEN s[1]
    ELSE RAdd(RSeqSum(SubSeq(s, 1, Len(s) \div 2)),
              RSeqSum(SubSeq(s, Len(s) \div 2 + 1, Len(s))))

\* Series.mean() of a Series of rationals: NaN on an empty Series
rmean(s) == IF Len(s) = 0 THEN FNaN ELSE Fin(RDiv(RSeqSum(s), RInt(Len(s))))

\* the p-value of ttest_ind(a, b, equal_var=False) for two samples of
\* rationals: NaN when a sample has fewer than two values or the statistic is
\* 0/0, 0 when it is infinite
DocPValues(a, b) ==
    IF Len(a) < 2 \/ Len(b) < 2 THEN {NaN}
    ELSE IF Cardinality(Range(a)) = 1 /\ Cardinality(Range(b)) = 1
         THEN (IF a[1] = b[1] THEN {NaN} ELSE {0})
         ELSE PVals

\* Series.std()**2 of a Series of rationals: NaN below two values
rvar(s) ==
    LET n == Len(s)
    IN  IF n < 2 THEN FNaN
        ELSE Fin(RDiv(RSub(RSeqSum([j \in 1..n |-> RMul(s[j], s[j])]),
                           RDiv(RMul(RSeqSum(s), RSeqSum(s)), RInt(n))),
                      RInt(n - 1)))

\* the vote_efficiency cell of row i: NaN when the rating or the vote count
\* is missing
efficiency(df, i) ==
    IF notna(df[i].imdb_rating) /\ notna(df[i].num_votes)
    THEN Fin(Rat(1000 * df[i].imdb_rating, df[i].num_votes))
    ELSE FNaN

\* e > m + sqrt(v), one standard deviation for two
exceeds_one_std(e, m, v) ==
    /\ ~isnan(e) /\ ~isnan(m) /\ ~isnan(v)
    /\ RLt(m.v, e.v)
    /\ RLt(v.v, RMul(RSub(e.v, m.v), RSub(e.v, m.v)))

\* e > threshold for threshold = m + 2 * sqrt(v), the historical mean m and
\* variance v: False when one of them is NaN
exceeds(e, m, v) ==
    /\ ~isnan(e) /\ ~isnan(m) /\ ~isnan(v)
    /\ RLt(m.v, e.v)
    /\ RLt(RMul(RInt(4), v.v), RMul(RSub(e.v, m.v), RSub(e.v, m.v)))

\* recent_docs[recent_docs['vote_efficiency'] > threshold]
suspicious_rows(df, recent, historical) ==
    SelectSeq(recent, LAMBDA i :
        exceeds(efficiency(df, i), rmean(vote_efficiency(df, historical)),
                rvar(vote_efficiency(df, historical))))

\* the columns ['title', 'year', 'imdb_rating', 'num_votes', 'vote_efficiency']
\* of row i
DocColumns(df, i) ==
    [title |-> df[i].title, year |-> df[i].year, imdb_rating |-> df[i].imdb_rating,
     num_votes |-> df[i].num_votes, vote_efficiency |-> efficiency(df, i)]

\* the orders in which rows that tie can come back from the sort: every
\* arrangement of the rows counted by bag (row |-> how many of it)
RECURSIVE Arrangements(_)
Arrangements(bag) ==
    IF \A r \in DOMAIN bag : bag[r] = 0 THEN {<<>>}
    ELSE UNION {{<<r>> \o rest : rest \in Arrangements([bag EXCEPT ![r] = @ - 1])} :
                r \in {x \in DOMAIN bag : bag[x] > 0}}

\* sort_values('vote_efficiency', ascending=False) with the default kind, on
\* the rows idx: the highest efficiency first, ties in any order
RECURSIVE SortedDocs(_, _)
SortedDocs(df, idx) ==
    IF idx = <<>> THEN {<<>>}
    ELSE LET top == CHOOSE i \in Range(idx) : \A j \in Range(idx) :
                        ~RLt(efficiency(df, i).v, efficiency(df, j).v)
             tied(i) == efficiency(df, i) = efficiency(df, top)
             rows == {DocColumns(df, i) : i \in {j \in Range(idx) : tied(j)}}
             bag == [r \in rows |->
                        Cardinality({i \in Range(idx) : DocColumns(df, i) = r})]
         IN  {first \o rest :
                first \in Arrangements(bag),
                rest \in SortedDocs(df, SelectSeq(idx, LAMBDA i : ~tied(i)))}

\* .head(20)
head(s, n) == SubSeq(s, 1, IF Len(s) < n THEN Len(s) ELSE n)

\* the result dictionary (its means, counts and p-value), from the
\* documentaries of the two periods
DocumentaryResult(df, years_range, recent, historical, p_value, sorted) ==
    [op |-> "analyze_documentary_manipulation", raised |-> "none",
     years_range |-> years_range,
     recent_mean_rating |-> mean(RatingsNotNull(df, recent)),
     historical_mean_rating |-> mean(RatingsNotNull(df, historical)),
     recent_efficiency |-> rmean(vote_efficiency(df, recent)),
     historical_efficiency |-> rmean(vote_efficiency(df, historical)),
     efficiency_boost |-> FSub(rmean(vote_efficiency(df, recent)),
                               rmean(vote_efficiency(df, historical))),
     p_value |-> p_value,
     suspicious_count |-> Len(sorted),
     total_recent_docs |-> Len(recent),
     suspicious_docs |-> head(sorted, 20)]

\* the call on the table df, which by then has its is_doc column
analyze_documentary_manipulation(df, years_range) ==
    \E p_value \in DocPValues(vote_efficiency(df, recent_docs(df, years_range)),
                              vote_efficiency(df, historical_docs(df, years_range))) :
        \E sorted \in SortedDocs(df, suspicious_rows(df, recent_docs(df, years_range),
                                                      historical_docs(df, years_range))) :
            result' = DocumentaryResult(df, years_range, recent_docs(df, years_range),
                                        historical_docs(df, years_range), p_value, sorted)

-----------------------------------------------------------------------------
(* The analyses specification: one call of any analysis function on a      *)
(* small table of documentaries and other movies.                          *)

\* rows of the dataset in the analyses specification
MaxDocRows == 4

\* the rows the analyses specification draws its datasets from
DocRowTypes ==
    << Row(2000, 7, 1000, <<>>),
       Row(2018, 6, 1000, <<"Documentary">>),
       Row(2019, 8, 2000, <<"Documentary", "Drama">>),
       Row(2020, NaN, NaN, <<"Documentary">>),
       Row(2021, 7, 1000, <<"Drama">>),
       Row(2024, 8, 500, <<"Documentary">>) >>

LoadDocRow == LoadRow(DocRowTypes, MaxDocRows)

AnalyzeDocumentaryManipulation ==
    /\ result.op = "none"
    /\ master' = WithIsDoc(master)
    /\ columns' = columns \cup {"is_doc"}
    /\ \E years_range \in GenreRangeArgs :
        analyze_documentary_manipulation(WithIsDoc(master), years_range)

NextAnalyses ==
    \/ LoadDocRow
    \/ AnalyzeDocumentaryManipulation
    \/ AnalyzeGenreAnomalies
    \/ DetectVoteClustering
    \/ TestCutoffHypothesis

SpecAnalyses == Init /\ [][NextAnalyses]_vars

-----------------------------------------------------------------------------
(* manipulation_detection.detect_franchise_coordination                    *)

\* str.lower of one character
lower(c) == IF c = "A" THEN "a" ELSE IF c = "B" THEN "b" ELSE c

\* re.compile accepts the keyword: an opening parenthesis that is never
\* closed is an error
compiles(keyword) == \A j \in 1..Len(keyword) : keyword[j] # "("

\* the regular expression keyword matches title at position pos, case
\* ignored: "." matches any character, a letter matches itself
match_at(title, keyword, pos) ==
    \A j \in 1..Len(keyword) :
        keyword[j] = "." \/ lower(keyword[j]) = lower(title[pos + j - 1])

\* the alternatives of the pattern '|'.join(keywords); the join of no
\* keyword is the empty pattern
alternatives(keywords) == IF keywords = <<>> THEN {<<>>} ELSE Range(keywords)

\* Series.str.contains(pattern, case=False, na=False, regex=True) for one
\* title: re.search finds an alternative somewhere in the title
contains(title, keywords) ==
    IF title = NullTitle THEN FALSE
    ELSE \E keyword \in alternatives(keywords) :
            \E pos \in 1..(Len(title) - Len(keyword) + 1) : match_at(title, keyword, pos)

\* recent['franchise'].notna() for one title
is_franchise(title, franchise_map) ==
    \E f \in 1..Len(franchise_map) : contains(title, franchise_map[f].keywords)

\* the genres the comparison is made in
franchise_genres == <<"Action", "Sci-Fi", "Adventure", "Thriller", "Drama">>

\* genre_data[mask]['imdb_rating'].dropna() for the rows of exploded whose
\* genre is genre and whose is_franchise flag is tagged
FranchiseRatings(df, exploded, genre, franchise_map, tagged) ==
    LET rows == SelectSeq(exploded, LAMBDA e :
                    /\ e.genres = genre
                    /\ is_franchise(df[e.row].title, franchise_map) = tagged
                    /\ notna(df[e.row].imdb_rating))
    IN  [j \in 1..Len(rows) |-> df[rows[j].row].imdb_rating]

\* the size test with the two minimum sizes exchanged
TooFew_swapped(n_franchise, n_standalone) == n_franchise < 10 \/ n_standalone < 5

\* the size test that skips a genre
TooFew(n_franchise, n_standalone) == n_franchise < 5 \/ n_standalone < 10

\* diff > 0.3 and p_value < 0.05 (p-values in thousandths)
FranchiseSuspicious(diff, p_value) ==
    FGt(diff, Fin(Rat(3, 10))) /\ Lt(p_value, 50)

\* the p-values the t distribution can answer for a franchise comparison
FranchisePVals == {5, 50, 500}

FranchisePValues(franchise_ratings, standalone_ratings) ==
    WelchPValues(ttest_ind(franchise_ratings, standalone_ratings, FALSE), FranchisePVals)

\* one row of the result
FranchiseRow(genre, franchise_ratings, standalone_ratings, p_value) ==
    [genre |-> genre,
     franchise_mean |-> mean(franchise_ratings),
     standalone_mean |-> mean(standalone_ratings),
     difference |-> FSub(mean(franchise_ratings), mean(standalone_ratings)),
     franchise_count |-> Len(franchise_ratings),
     standalone_count |-> Len(standalone_ratings),
     t_statistic |-> ttest_ind(franchise_ratings, standalone_ratings, FALSE),
     p_value |-> p_value,
     cohens_d |-> GenreCohensD(franchise_ratings, standalone_ratings),
     suspicious |-> FranchiseSuspicious(
         FSub(mean(franchise_ratings), mean(standalone_ratings)), p_value)]

\* the genres that get a row
FranchiseKept(df, exploded, franchise_map) ==
    {g \in Range(franchise_genres) :
        ~TooFew(Len(FranchiseRatings(df, exploded, g, franchise_map, TRUE)),
                Len(FranchiseRatings(df, exploded, g, franchise_map, FALSE)))}

\* the tables the loop can build
FranchiseTables(df, exploded, franchise_map, kept) ==
    {[g \in kept |-> FranchiseRow(g, FranchiseRatings(df, exploded, g, franchise_map, TRUE),
                                  FranchiseRatings(df, exploded, g, franchise_map, FALSE),
                                  p[g])] :
        p \in {q \in [kept -> FranchisePVals \cup {0, NaN}] :
                  \A g \in kept :
                      q[g] \in FranchisePValues(
                          FranchiseRatings(df, exploded, g, franchise_map, TRUE),
                          FranchiseRatings(df, exploded, g, franchise_map, FALSE))}}

\* the orders with the smallest difference first
FranchiseOrders_ascending(table) ==
    {ord \in [1..Cardinality(DOMAIN table) -> DOMAIN table] :
        /\ \A a, b \in DOMAIN ord : a # b => ord[a] # ord[b]
        /\ \A a, b \in DOMAIN ord :
               a < b => ~FGt(table[ord[a]].difference, table[ord[b]].difference)}

\* sort_values('difference', ascending=False) with the default kind: the
\* orders in which the genres of the table can come back
FranchiseOrders(table) ==
    {ord \in [1..Cardinality(DOMAIN table) -> DOMAIN table] :
        /\ \A a, b \in DOMAIN ord : a # b => ord[a] # ord[b]
        /\ \A a, b \in DOMAIN ord :
               a < b => ~FGt(table[ord[b]].difference, table[ord[a]].difference)}

\* the DataFrame returned, with the labels of the recent rows that were
\* tagged; DataFrame([]) has no column 'difference' to sort by
SortedFranchise(table, franchise_map, years_range, tagged, ord) ==
    IF DOMAIN table = {}
    THEN [op |-> "detect_franchise_coordination", raised |-> "KeyError",
          franchise_map |-> franchise_map, years_range |-> years_range]
    ELSE [op |-> "detect_franchise_coordination", raised |-> "none",
          franchise_map |-> franchise_map, years_range |-> years_range,
          tagged |-> tagged,
          rows |-> [a \in DOMAIN ord |-> table[ord[a]]]]

\* the loop, the final sort and the return, for the exploded recent rows
ReturnFranchise(df, franchise_map, years_range, recent, exploded) ==
    \E table \in FranchiseTables(df, exploded, franchise_map,
                                 FranchiseKept(df, exploded, franchise_map)) :
        \E ord \in FranchiseOrders(table) :
            /\ result' = SortedFranchise(table, franchise_map, years_range,
                   SelectSeq(recent, LAMBDA i : is_franchise(df[i].title, franchise_map)),
                   ord)
            /\ UNCHANGED <<master, columns>>

detect_franchise_coordination(df, franchise_map, years_range) ==
    IF \E f \in 1..Len(franchise_map) :
           \E keyword \in Range(franchise_map[f].keywords) : ~compiles(keyword)
    THEN /\ result' = [op |-> "detect_franchise_coordination", raised |-> "re.error",
                       franchise_map |-> franchise_map, years_range |-> years_range]
         /\ UNCHANGED <<master, columns>>
    ELSE ReturnFranchise(df, franchise_map, years_range, Recent(df, years_range),
                         explode(df, Recent(df, years_range)))

-----------------------------------------------------------------------------
(* The franchise specification: calls of detect_franchise_coordination.    *)

\* rows of the dataset in the franchise specification
MaxFranchiseRows == 48

\* the keyword mappings passed as franchise_map: a literal keyword, two
\* franchises, a franchise without keywords, a keyword that is a regular
\* expression, a keyword that is no regular expression
FranchiseMapArgs ==
    { << [franchise |-> "MCU", keywords |-> << <<"a", "B">> >>] >>,
      << [franchise |-> "MCU", keywords |-> << <<"a", "a">>, <<"a", "b">> >>],
         [franchise |-> "DC", keywords |-> << <<"a", "a">> >>] >>,
      << [franchise |-> "MCU", keywords |-> << <<"a", "b">> >>],
         [franchise |-> "Dune", keywords |-> << >>] >>,
      << [franchise |-> "MCU", keywords |-> << <<"a", ".">> >>] >>,
      << [franchise |-> "MCU", keywords |-> << <<"(", "a">> >>] >> }

\* the rows the franchise specification draws its datasets from
FranchiseRowTypes ==
    << TitledRow(2019, 8, 1000, <<"Action">>, <<"A", "b">>),
       TitledRow(2024, 7, 1000, <<"Drama", "Action">>, <<"b", "a", "B">>),
       TitledRow(2020, NaN, NaN, <<"Action">>, <<"a", "b">>),
       TitledRow(2021, 8, 1000, <<"Comedy">>, <<"a", "b">>),
       TitledRow(2020, 6, 1000, <<"Action">>, <<"b", "b">>),
       TitledRow(2023, 8, 1000, <<"Action">>, <<"b", "b">>),
       TitledRow(2022, 7, 1000, <<"Drama">>, <<"a", "a">>),
       TitledRow(2022, 6, 1000, <<"Comedy">>, <<"b">>),
       TitledRow(2021, 8, 1000, <<"Action">>, NullTitle),
       TitledRow(2018, 8, 1000, <<"Action">>, <<"a", "b">>) >>

\* how many rows of each kind the input files can hold
FranchiseBlockSizes ==
    << {4, 5}, {1, 5}, {1}, {5}, {9, 10}, {10}, {9, 10}, {10}, {1}, {1, 5} >>

\* the rows of one kind are read into the table, sizes[k] giving the numbers
\* of rows of kind k
LoadBlocks(types, sizes, max) ==
    /\ result.op = "none"
    /\ \E k \in 1..Len(types) :
        \E c \in sizes[k] :
            /\ Len(master) + c <= max
            /\ IF master = <<>> THEN TRUE
               ELSE IF master[Len(master)] \in Range(types)
                    THEN TypeOf(types, master[Len(master)]) < k
                    ELSE FALSE
            /\ master' = master \o [j \in 1..c |-> types[k]]
    /\ UNCHANGED <<columns, result>>

LoadFranchiseRows == LoadBlocks(FranchiseRowTypes, FranchiseBlockSizes, MaxFranchiseRows)

DetectFranchiseCoordination ==
    /\ result.op = "none"
    /\ \E franchise_map \in FranchiseMapArgs :
        detect_franchise_coordination(master, franchise_map, RECENT_YEARS)

NextFranchise == LoadFranchiseRows \/ DetectFranchiseCoordination

SpecFranchise == Init /\ [][NextFranchise]_vars

-----------------------------------------------------------------------------
(* The detectors specification: calls of analyze_genre_anomalies and of    *)
(* detect_franchise_coordination, on the datasets of the genre and of the  *)
(* franchise specification.                                                *)

NextDetectors == NextGenre \/ NextFranchise

SpecDetectors == Init /\ [][NextDetectors]_vars

-----------------------------------------------------------------------------
(* The large-genre specification: analyze_genre_anomalies on datasets with *)
(* fifty and more rated movies of one genre in each period.                *)

MaxLargeRows == 100

\* the rows the large-genre specification draws its datasets from
LargeRowTypes ==
    << Row(2010, 6, 1000, <<"Horror">>),
       Row(2011, 5, 1000, <<"Horror">>),
       Row(2012, 7, 1000, <<"Horror">>),
       Row(2020, 7, 1000, <<"Horror">>),
       Row(2021, 6, 1000, <<"Horror">>),
       Row(2022, 8, 1000, <<"Horror">>) >>

\* how many rows of each kind the input files hold
LargeBlockSizes == << {50}, {25}, {25}, {50}, {25, 50}, {25} >>

LoadLargeRows == LoadBlocks(LargeRowTypes, LargeBlockSizes, MaxLargeRows)

NextGenreLarge == LoadLargeRows \/ AnalyzeGenreAnomalies

SpecGenreLarge == Init /\ [][NextGenreLarge]_vars

-----------------------------------------------------------------------------
(* The labels specification: the helper functions _effect_size_label and   *)
(* _benford_verdict and the manipulation_probability expression, applied   *)
(* to arguments drawn at the start.                                        *)

\* the largest |cohens_d|, in twentieths
MaxD == 20

\* the values of cohens_d: n/20 for n in -MaxD..MaxD, +-inf and NaN
LabelDArgs ==
    {Root(Sign(n), Rat(n * n, 400)) : n \in -MaxD..MaxD} \cup {FInf(1), FInf(-1), FNaN}

\* the p-values, in thousandths, and NaN
LabelPArgs == {NaN, 0, 5, 9, 10, 11, 49, 50, 51, 500, 1000}

\* the clustering ratios: as computed they are finite and not negative
LabelRatioArgs == {Fin(Rat(r, 10)) : r \in {0, 50, 99, 100, 101, 200}}

InitLabels ==
    /\ master = <<>>
    /\ columns = MasterColumns
    /\ result \in [op : {"none"}, cohens_d : LabelDArgs, p_value : LabelPArgs,
                    clustering_ratio : LabelRatioArgs]

EffectSizeLabel ==
    /\ result.op = "none"
    /\ result' = [op |-> "_effect_size_label", cohens_d |-> result.cohens_d,
                  label |-> _effect_size_label(result.cohens_d)]
    /\ UNCHANGED <<master, columns>>

ManipulationProbability ==
    /\ result.op = "none"
    /\ result' = [op |-> "manipulation_probability", p_value |-> result.p_value,
                  label |-> manipulation_probability(result.p_value)]
    /\ UNCHANGED <<master, columns>>

\* stats.chisquare answers a number for the percentages it is given, so the
\* verdict is asked for a p-value that is not NaN
BenfordVerdict ==
    /\ result.op = "none"
    /\ notna(result.p_value)
    /\ result' = [op |-> "_benford_verdict", p_value |-> result.p_value,
                  clustering_ratio |-> result.clustering_ratio,
                  verdict |-> _benford_verdict(result.p_value, result.clustering_ratio)]
    /\ UNCHANGED <<master, columns>>

NextLabels == EffectSizeLabel \/ ManipulationProbability \/ BenfordVerdict

SpecLabels == InitLabels /\ [][NextLabels]_vars

-----------------------------------------------------------------------------
(* The leading-digits specification: detect_vote_clustering on datasets    *)
(* that hold every leading digit.                                          *)

MaxDigitRows == 12

\* the rows the leading-digits specification draws its datasets from, one
\* kind for each leading digit
DigitRowTypes ==
    << Row(2019, 7, 1000, <<"Drama">>), Row(2020, 7, 2500, <<"Drama">>),
       Row(2021, 7, 30, <<"Drama">>), Row(2022, 7, 4000, <<"Drama">>),
       Row(2023, 7, 500, <<"Drama">>), Row(2024, 7, 66, <<"Drama">>),
       Row(2020, 7, 7, <<"Drama">>), Row(2021, 7, 8123, <<"Drama">>),
       Row(2022, 7, 900, <<"Drama">>) >>

\* how many rows of each kind the input files hold
DigitBlockSizes == << {1, 2, 3}, {1, 2}, {1}, {1}, {1}, {1}, {1}, {1}, {1} >>

LoadDigitRows == LoadBlocks(DigitRowTypes, DigitBlockSizes, MaxDigitRows)

NextDigits == LoadDigitRows \/ DetectVoteClustering

SpecDigits == Init /\ [][NextDigits]_vars

-----------------------------------------------------------------------------
(* The documentaries specification: analyze_documentary_manipulation on    *)
(* datasets with more than twenty recent documentaries.                    *)

MaxDocumentaryRows == 30

\* the rows the documentaries specification draws its datasets from
DocumentaryRowTypes ==
    << Row(2010, 6, 1000, <<"Documentary">>),
       Row(2011, 8, 1000, <<"Documentary">>),
       Row(2020, 8, 500, <<"Documentary">>),
       Row(2021, 8, 500, <<"Drama", "Documentary">>),
       Row(2021, 9, 1000, <<"Documentary">>),
       Row(2022, 9, 100, <<"Documentary">>),
       Row(2022, 8, 100, <<"Drama">>),
       Row(2023, 5, 500, <<"Documentary">>),
       Row(2023, NaN, NaN, <<"Documentary">>) >>

\* how many rows of each kind the input files hold
DocumentaryBlockSizes == << {1}, {1, 2}, {1, 11}, {1}, {1}, {1, 10}, {1}, {1, 10}, {1} >>

LoadDocumentaryRows ==
    LoadBlocks(DocumentaryRowTypes, DocumentaryBlockSizes, MaxDocumentaryRows)

NextDocumentaries == LoadDocumentaryRows \/ AnalyzeDocumentaryManipulation

SpecDocumentaries == Init /\ [][NextDocumentaries]_vars

-----------------------------------------------------------------------------
(* rating_analysis.analyze_high_rated_by_decade                            *)

\* master['decade'] = (master['year'] // 10) * 10: NaN for a missing year
decade(year) == IF notna(year) THEN (year \div 10) * 10 ELSE NaN

\* the rows with rating >= threshold, num_votes >= min_votes and
\* decade >= 1950
HighRated(df, threshold, min_votes) ==
    SelectSeq(Index(df), LAMBDA i :
        /\ Ge(df[i].imdb_rating, threshold)
        /\ Ge(df[i].num_votes, min_votes)
        /\ Ge(decade(df[i].year), 1950))

\* the k-th smallest value of a Series
kth(s, k) ==
    CHOOSE x \in Range(s) :
        /\ Cardinality({j \in 1..Len(s) : s[j] < x}) < k
        /\ Cardinality({j \in 1..Len(s) : s[j] <= x}) >= k

\* Series.median() of a Series with a value
median(s) ==
    IF Len(s) % 2 = 1 THEN Fin(RInt(kth(s, (Len(s) + 1) \div 2)))
    ELSE Fin(Rat(kth(s, Len(s) \div 2) + kth(s, Len(s) \div 2 + 1), 2))

\* the num_votes column of the rows idx
Votes(df, idx) == [j \in 1..Len(idx) |-> df[idx[j]].num_votes]

\* the row of one group: count of imdb_id, mean and median of the rating
\* and of the vote count
DecadeRow(df, d, idx) ==
    [decade |-> d,
     count |-> Len(idx),
     rating_mean |-> mean(Ratings(df, idx)),
     rating_median |-> median(Ratings(df, idx)),
     votes_mean |-> mean(Votes(df, idx)),
     votes_median |-> median(Votes(df, idx))]

\* groupby('decade').agg(...).reset_index(): one row for each decade of the
\* filtered rows, in ascending order of decade
RECURSIVE decade_counts(_, _)
decade_counts(df, filtered) ==
    IF filtered = <<>> THEN <<>>
    ELSE LET d == CHOOSE x \in {decade(df[i].year) : i \in Range(filtered)} :
                      \A i \in Range(filtered) : x <= decade(df[i].year)
         IN  <<DecadeRow(df, d, SelectSeq(filtered, LAMBDA i : decade(df[i].year) = d))>>
             \o decade_counts(df, SelectSeq(filtered, LAMBDA i : decade(df[i].year) # d))

analyze_high_rated_by_decade(df, threshold, min_votes) ==
    [op |-> "analyze_high_rated_by_decade", raised |-> "none",
     threshold |-> threshold, min_votes |-> min_votes,
     rows |-> decade_counts(df, HighRated(df, threshold, min_votes))]

-----------------------------------------------------------------------------
(* The decades specification: calls of analyze_high_rated_by_decade.       *)

MaxDecadeRows == 4

\* the rows the decades specification draws its datasets from
DecadeRowTypes ==
    << Row(1942, 9, 500000, <<"Drama">>), Row(1955, 8, 20000, <<"Drama">>),
       Row(1957, 9, 10000, <<"Drama">>), Row(1994, 9, 2000000, <<"Drama">>),
       Row(1999, 7, 50000, <<"Drama">>), Row(2005, 8, 5000, <<"Drama">>),
       Row(NaN, 9, 20000, <<"Drama">>), Row(2010, NaN, NaN, <<"Drama">>) >>

LoadDecadeRow == LoadRow(DecadeRowTypes, MaxDecadeRows)

AnalyzeHighRatedByDecade ==
    /\ result.op = "none"
    /\ \E threshold \in {7, 8}, min_votes \in {5000, 10000} :
        result' = analyze_high_rated_by_decade(master, threshold, min_votes)
    /\ UNCHANGED <<master, columns>>

NextDecades == LoadDecadeRow \/ AnalyzeHighRatedByDecade

SpecDecades == Init /\ [][NextDecades]_vars

-----------------------------------------------------------------------------
(* The preparation specification: load_master_with_metadata reads and      *)
(* merges the input files, whatever they hold, and an analysis is called   *)
(* on the table.                                                           *)

MaxPreparedRows == 3

\* a row of title_basics with its imdb_id, left-joined with its ratings
IdRow(imdb_id, y, r, v) == Row(y, r, v, <<"Drama">>) @@ [imdb_id |-> imdb_id]

\* the rows of the input files: the same row twice is an identifier twice
PreparedRowTypes ==
    << IdRow("tt0000001", 1994, 9, 20000), IdRow("tt0000002", 1995, 11, 20000),
       IdRow("tt0000003", 1996, 8, -5), IdRow("tt0000004", 2001, 8, 15000),
       IdRow("tt0000005", 2002, -2, 10000), IdRow("tt0000006", 2010, NaN, NaN),
       IdRow("tt0000007", 2011, 10, 0), IdRow("tt0000008", 2012, 0, 12000) >>

\* master = basics.merge(ratings, on='imdb_id', how='left'), row by row
LoadPreparedRow == LoadRow(PreparedRowTypes, MaxPreparedRows)

NextPrepare == LoadPreparedRow \/ AnalyzeHighRatedByDecade

SpecPrepare == Init /\ [][NextPrepare]_vars

-----------------------------------------------------------------------------
(* The ranges specification: the four detectors called with a year range   *)
(* that is inverted, or that lies outside the years of the dataset.        *)

\* the years_range arguments: inverted, after every record, and the default
RangeArgs == {<<2024, 2019>>, <<2030, 2035>>, RECENT_YEARS}

GenreAnomaliesInRange ==
    /\ result.op = "none"
    /\ \E years_range \in RangeArgs : analyze_genre_anomalies(master, years_range)

VoteClusteringInRange ==
    /\ result.op = "none"
    /\ \E years_range \in RangeArgs :
        \E lib \in ChisquareOf(master, RecentVotes(master, years_range)) :
            /\ result' = detect_vote_clustering(master, years_range, lib)
            /\ UNCHANGED <<master, columns>>

FranchiseCoordinationInRange ==
    /\ result.op = "none"
    /\ \E years_range \in RangeArgs, franchise_map \in FranchiseMapArgs :
        detect_franchise_coordination(master, franchise_map, years_range)

DocumentaryManipulationInRange ==
    /\ result.op = "none"
    /\ master' = WithIsDoc(master)
    /\ columns' = columns \cup {"is_doc"}
    /\ \E years_range \in RangeArgs :
        analyze_documentary_manipulation(WithIsDoc(master), years_range)

NextRanges ==
    \/ LoadDocRow
    \/ GenreAnomaliesInRange
    \/ VoteClusteringInRange
    \/ FranchiseCoordinationInRange
    \/ DocumentaryManipulationInRange

SpecRanges == Init /\ [][NextRanges]_vars

-----------------------------------------------------------------------------
(* rating_analysis.load_master_with_metadata: the era column               *)

era_bins == <<0, 1950, 1980, 2000, 2010, 2020, 3000>>

era_labels == <<"Pre-1950", "1950-1979", "1980-1999", "2000-2009", "2010-2019", "2020+">>

\* pd.cut(x, bins, labels) with its default right=True: the label of the
\* interval (bins[k], bins[k+1]] that holds x, NaN for a missing x and for an
\* x in no interval
cut(x, bins, labels) ==
    IF notna(x) /\ \E k \in 1..Len(labels) : bins[k] < x /\ x <= bins[k + 1]
    THEN labels[CHOOSE k \in 1..Len(labels) : bins[k] < x /\ x <= bins[k + 1]]
    ELSE "NaN"

\* master['era'] = pd.cut(master['year'], bins=[...], labels=[...])
era(year) == cut(year, era_bins, era_labels)

-----------------------------------------------------------------------------
(* The eras specification: the era column of a movie of any year.          *)

\* the last year of the movies
MaxEraYear == 2030

\* the year column: a year from 1900 on, or missing
EraYearArgs == 1900..MaxEraYear \cup {NaN}

InitEras ==
    /\ master = <<>>
    /\ columns = MasterColumns
    /\ result \in [op : {"none"}, year : EraYearArgs]

\* the derived column is computed for the movie
AssignEra ==
    /\ result.op = "none"
    /\ result' = [op |-> "load_master_with_metadata", year |-> result.year,
                  decade |-> decade(result.year), era |-> era(result.year)]
    /\ UNCHANGED <<master, columns>>

NextEras == AssignEra

SpecEras == InitEras /\ [][NextEras]_vars

-----------------------------------------------------------------------------
(* tmdb_integration.TMDbClient: _rate_limit and _request.  The client      *)
(* object, the clock (in seconds) and the times of the HTTP requests sent  *)
(* are kept in the variable result.                                        *)

TMDB_RATE_LIMIT == 40

TMDB_BATCH_DELAY == 10

\* the depth of recursion at which the interpreter raises RecursionError
\* (sys.getrecursionlimit(), scaled down)
RecursionLimit == 2

\* the HTTP requests of a behaviour, and the last second at which time
\* passes between two calls
MaxRequests == 42

MaxClock == 10

\* the times the server answers HTTP 429 in a behaviour
MaxRefusals == 2

\* the seconds that pass between two calls, at a time
TickSeconds == 5

\* TMDbClient.__init__: the counter, the batch start, and no call under way
TMDbClient ==
    [op |-> "TMDbClient", request_count |-> 0, batch_start_time |-> 0, now |-> 0,
     sent |-> <<>>, refusals |-> 0, pc |-> "idle", depth |-> 0, returned |-> "none"]

\* _rate_limit: the counter goes up; at TMDB_RATE_LIMIT the call sleeps to
\* the end of the batch delay, and the counter and the batch start are reset
rate_limit(c) ==
    IF c.request_count + 1 >= TMDB_RATE_LIMIT
    THEN LET woken == IF c.now - c.batch_start_time < TMDB_BATCH_DELAY
                      THEN c.batch_start_time + TMDB_BATCH_DELAY
                      ELSE c.now
         IN  [c EXCEPT !.request_count = 0, !.batch_start_time = woken, !.now = woken]
    ELSE [c EXCEPT !.request_count = c.request_count + 1]

\* the answers to session.get: a status code, or 0 for no answer at all
\* (requests.exceptions.RequestException)
HttpAnswers(c) ==
    {200, 404, 500, 0} \cup (IF c.refusals < MaxRefusals THEN {429} ELSE {})

\* the handlers of the answer: json for 200, None for 404, a retry after 429,
\* TMDbAPIError for every other failure
handle(c, answer) ==
    IF answer = 429 THEN [c EXCEPT !.pc = "retry", !.refusals = c.refusals + 1]
    ELSE [c EXCEPT !.pc = "idle", !.depth = 0,
                   !.returned = IF answer = 200 THEN "json"
                                ELSE IF answer = 404 THEN "None"
                                ELSE "TMDbAPIError"]

\* one pass through _request: _rate_limit(), session.get(), and the handler
\* of its answer
attempt(c, answer) ==
    handle([rate_limit(c) EXCEPT !.sent = Append(c.sent, rate_limit(c).now)], answer)

\* time passes between two calls
Tick ==
    /\ result.pc = "idle"
    /\ result.now + TickSeconds <= MaxClock
    /\ result' = [result EXCEPT !.now = result.now + TickSeconds]
    /\ UNCHANGED <<master, columns>>

\* a call of _request by one of the client's methods
Request ==
    /\ result.pc = "idle"
    /\ Len(result.sent) < MaxRequests
    /\ \E answer \in HttpAnswers(result) :
        result' = attempt([result EXCEPT !.returned = "none"], answer)
    /\ UNCHANGED <<master, columns>>

\* after HTTP 429: time.sleep(10) and return self._request(endpoint, params),
\* which raises RecursionError when the stack is full
Retry ==
    /\ result.pc = "retry"
    /\ result.depth + 1 < RecursionLimit => Len(result.sent) < MaxRequests
    /\ IF result.depth + 1 >= RecursionLimit
       THEN result' = [result EXCEPT !.pc = "idle", !.depth = 0,
                                     !.now = result.now + 10,
                                     !.returned = "RecursionError"]
       ELSE \E answer \in HttpAnswers(result) :
                result' = attempt([result EXCEPT !.now = result.now + 10,
                                                 !.depth = result.depth + 1], answer)
    /\ UNCHANGED <<master, columns>>

InitTMDb ==
    /\ master = <<>>
    /\ columns = MasterColumns
    /\ result = TMDbClient

NextTMDb == Tick \/ Request \/ Retry

SpecTMDb == InitTMDb /\ [][NextTMDb]_vars

-----------------------------------------------------------------------------
(* historical_lists: fetch_imdb_top250_snapshot and fetch_snapshot_html.   *)
(* The two cache directories, the number of calls made and the value the   *)
(* last call returned are kept in the variable result.  An absent file and *)
(* the value None are the empty sequence; a file or a value v is <<v>>.    *)

\* the calls of a behaviour
MaxCalls == 3

\* the years asked for, out of SNAPSHOT_YEARS
SnapshotYearArgs == {1996, 2000}

\* the pages the archive serves: their text is empty, or holds the movies
\* that parse_imdb_top250 finds in it
ArchivedPages == {<<>>, <<"tt0111161">>, <<"tt0068646">>}

\* a downloaded page, with the call that downloaded it
Html(page, call) == [text |-> page, downloaded |-> call]

\* parse_imdb_top250: the movies of the page
parse_imdb_top250(html) == html.text

\* `not html` and `not movies`: None and the empty string, None and the
\* empty list
falsy(v) == v = <<>> \/ v[1].text = <<>>

\* fetch_snapshot_html: the cached file if there is one, else the download,
\* which is cached; None when the download fails
fetch_snapshot_html(cache, year, download) ==
    IF cache[year] # <<>> THEN cache[year] ELSE download

cache_after_fetch(cache, year, download) ==
    IF cache[year] = <<>> /\ download # <<>>
    THEN [cache EXCEPT ![year] = download]
    ELSE cache

\* the DataFrame of the parsed movies with its snapshot_year
Top250(html, year) ==
    [movies |-> parse_imdb_top250(html), snapshot_year |-> year,
     downloaded |-> html.downloaded]

\* fetch_imdb_top250_snapshot: the processed file unless force_refresh, else
\* the snapshot's address, its HTML, the parsed movies, and the processed
\* file written
fetch_imdb_top250_snapshot(c, year, force_refresh, snapshot_url, download) ==
    LET called == [c EXCEPT !.calls = c.calls + 1, !.force_refresh = force_refresh,
                            !.returned = <<>>]
        html == fetch_snapshot_html(c.cache, year, download)
        fetched == [called EXCEPT !.cache = cache_after_fetch(c.cache, year, download)]
    IN  IF c.processed[year] # <<>> /\ ~force_refresh
        THEN [called EXCEPT !.returned = c.processed[year]]
        ELSE IF ~snapshot_url THEN called
        ELSE IF falsy(html) THEN fetched
        ELSE [fetched EXCEPT !.returned = <<Top250(html[1], year)>>,
                             !.processed[year] = <<Top250(html[1], year)>>]

InitSnapshots ==
    /\ master = <<>>
    /\ columns = MasterColumns
    /\ result = [op |-> "fetch_imdb_top250_snapshot", calls |-> 0,
                 force_refresh |-> FALSE, returned |-> <<>>,
                 processed |-> [y \in SnapshotYearArgs |-> <<>>],
                 cache |-> [y \in SnapshotYearArgs |-> <<>>]]

\* a call; the archive knows a snapshot or not, and the download fails or
\* gives one of the pages
FetchImdbTop250Snapshot ==
    /\ result.calls < MaxCalls
    /\ \E year \in SnapshotYearArgs, force_refresh \in BOOLEAN, snapshot_url \in BOOLEAN,
          download \in {<<>>} \cup {<<Html(page, result.calls + 1)>> : page \in ArchivedPages} :
          result' = fetch_imdb_top250_snapshot(result, year, force_refresh,
                                               snapshot_url, download)
    /\ UNCHANGED <<master, columns>>

NextSnapshots == FetchImdbTop250Snapshot

SpecSnapshots == InitSnapshots /\ [][NextSnapshots]_vars

-----------------------------------------------------------------------------
(* Claims about test_cutoff_hypothesis (specification Spec).               *)

CutoffReturned == result.op = "test_cutoff_hypothesis" /\ result.raised = "none"

\* the rows of the table that the claim's filter keeps: a rating, enough
\* votes, a year in 1980..2024
InWindow(min_votes) ==
    {i \in 1..Len(master) :
        /\ master[i].imdb_rating # NaN
        /\ master[i].num_votes # NaN /\ master[i].num_votes >= min_votes
        /\ master[i].year # NaN /\ master[i].year \in 1980..2024}

\* C1: before (year < cutoff) and after (year >= cutoff) are disjoint, their
\* union is exactly the set of rows with a rating, num_votes >= min_votes and
\* a year in 1980..2024, and n_before + n_after is the size of that set.
C1_PartitionExact ==
    CutoffReturned =>
        LET B == Range(result.before)
            A == Range(result.after)
            F == InWindow(result.min_votes)
        IN  /\ B \cap A = {}
            /\ B \cup A = F
            /\ B = {i \in F : master[i].year < result.cutoff_year}
            /\ A = {i \in F : master[i].year >= result.cutoff_year}
            /\ result.n_before = Cardinality(B)
            /\ result.n_after = Cardinality(A)
            /\ result.n_before + result.n_after = Cardinality(F)

\* C1 witness: a call with rows on both sides, one of them of the cutoff year
\* itself, and rows that the filter drops
C1_Witness ==
    /\ CutoffReturned
    /\ result.n_before > 0
    /\ \E i \in Range(result.after) : master[i].year = result.cutoff_year
    /\ Len(master) > result.n_before + result.n_after

\* C2: with an empty before or after partition the call fails with an
\* InsufficientDataError; it returns no dictionary of NaN statistics.
C2_EmptyPartitionIsInsufficientData ==
    (/\ result.op = "test_cutoff_hypothesis"
     /\ \/ Before(master, result.cutoff_year, result.min_votes) = <<>>
        \/ After(master, result.cutoff_year, result.min_votes) = <<>>)
        => result.raised = "InsufficientDataError"

\* C7: with both partitions non-empty, mean_after > mean_before gives
\* cohens_d > 0 and mean_after < mean_before gives cohens_d < 0.
C7_CohensDSign ==
    (CutoffReturned /\ result.n_before > 0 /\ result.n_after > 0) =>
        /\ FGt(result.mean_after, result.mean_before) => FPos(result.cohens_d)
        /\ FGt(result.mean_before, result.mean_after) => FNeg(result.cohens_d)

\* C10: the t statistic the cutoff tester reports is that of the
\* unequal-variance (Welch) test of the before and after ratings.
C10_CutoffTTestIsWelch ==
    CutoffReturned =>
        result.t_statistic = ttest_ind(Ratings(master, result.before),
                                       Ratings(master, result.after), FALSE)

-----------------------------------------------------------------------------
(* Claims about compare_all_cutoffs (specification SpecCompare).           *)

CompareReturned == result.op = "compare_all_cutoffs" /\ result.raised = "none"

\* rs ranks the p-values ps in ascending order: a smaller p-value has a
\* smaller rank, equal p-values share a rank, the one smallest p-value has
\* rank 1, a NaN p-value has no rank
IsAscendingRank(ps, rs) ==
    \A i \in 1..Len(ps) :
        /\ (ps[i] = NaN) <=> isnan(rs[i])
        /\ \A j \in 1..Len(ps) :
            /\ (ps[i] # NaN /\ ps[j] # NaN /\ ps[i] < ps[j]) => RLt(rs[i].v, rs[j].v)
            /\ ps[i] = ps[j] => rs[i] = rs[j]
        /\ (ps[i] # NaN /\ \A j \in 1..Len(ps) : (j # i /\ ps[j] # NaN) => ps[i] < ps[j])
               => rs[i].v = RInt(1)

\* c is the arithmetic mean of the three ranks (NaN when one is missing)
IsMeanOfRanks(c, t, l, k) ==
    IF isnan(t) \/ isnan(l) \/ isnan(k) THEN isnan(c)
    ELSE ~isnan(c) /\ RMul(RInt(3), c.v) = RAdd(RAdd(t.v, l.v), k.v)

IsRankedTable(rows) ==
    /\ Len(rows) = Len(cutoff_years)
    /\ {rows[a].cutoff_year : a \in 1..Len(rows)} = Range(cutoff_years)
    /\ IsAscendingRank([a \in 1..Len(rows) |-> rows[a].t_pvalue],
                       [a \in 1..Len(rows) |-> rows[a].t_rank])
    /\ IsAscendingRank([a \in 1..Len(rows) |-> rows[a].levene_pvalue],
                       [a \in 1..Len(rows) |-> rows[a].levene_rank])
    /\ IsAscendingRank([a \in 1..Len(rows) |-> rows[a].ks_pvalue],
                       [a \in 1..Len(rows) |-> rows[a].ks_rank])
    /\ \A a \in 1..Len(rows) :
        IsMeanOfRanks(rows[a].combined_rank, rows[a].t_rank, rows[a].levene_rank,
                      rows[a].ks_rank)
    /\ \A a \in 1..(Len(rows) - 1) :
        /\ ~FGt(rows[a].combined_rank, rows[a + 1].combined_rank)
        /\ ~(isnan(rows[a].combined_rank) /\ ~isnan(rows[a + 1].combined_rank))

\* C8: every candidate year's combined_rank is the mean of its ascending
\* ranks by t-test, Levene and KS p-value, and the candidates come back in
\* non-decreasing order of combined_rank (unranked candidates last).
C8_CombinedRankSorted == CompareReturned => IsRankedTable(result.rows)

\* C8 witness: a returned table with two candidates of different combined rank
C8_Witness ==
    /\ CompareReturned
    /\ \E a, b \in 1..Len(result.rows) :
        FGt(result.rows[b].combined_rank, result.rows[a].combined_rank)

\* C9: candidates of equal combined_rank come back in candidate order
\* (2000, 2008, 2012, 2018, 2020).
C9_TiesInCandidateOrder ==
    CompareReturned =>
        \A a, b \in 1..Len(result.rows) :
            (a < b /\ result.rows[a].combined_rank = result.rows[b].combined_rank)
                => result.rows[a].cutoff_year < result.rows[b].cutoff_year

-----------------------------------------------------------------------------
(* Claims about analyze_genre_anomalies (specification SpecGenre).         *)

GenreReturned == result.op = "analyze_genre_anomalies" /\ result.raised = "none"

\* C3: a genre's suspicious flag is true if and only if |cohens_d| > 0.5 and
\* p_value < 0.01, both strict (p-values in thousandths; cohens_d has the
\* value s * sqrt(v), so |cohens_d| > 1/2 means v > 1/4).
C3_SuspiciousIffBoth ==
    GenreReturned =>
        \A a \in 1..Len(result.rows) :
            LET r == result.rows[a]
                big == r.cohens_d.k = "inf"
                       \/ (r.cohens_d.k = "fin" /\ 4 * r.cohens_d.v.n > r.cohens_d.v.d)
                rare == r.p_value # NaN /\ r.p_value < 10
            IN  r.suspicious <=> (big /\ rare)

\* C3 witness: a table with a flagged genre and a genre that meets the
\* p-value condition alone
C3_Witness ==
    /\ GenreReturned
    /\ \E a, b \in 1..Len(result.rows) :
        /\ result.rows[a].suspicious
        /\ result.rows[b].p_value # NaN /\ result.rows[b].p_value < 10
        /\ ~result.rows[b].suspicious

\* the (row, list position) pairs of the dataset that give genre g a rating
\* in the years lo..hi
RatedIn(g, lo, hi) ==
    {p \in (1..Len(master)) \X (1..2) :
        /\ p[2] <= Len(master[p[1]].genres)
        /\ master[p[1]].genres[p[2]] = g
        /\ master[p[1]].imdb_rating # NaN
        /\ master[p[1]].year # NaN
        /\ master[p[1]].year \in lo..hi}

\* the genres with at least 10 ratings in the recent years and at least 10 in
\* the years before them
Qualifying(years_range) ==
    {g \in {"Drama", "Documentary"} :
        /\ Cardinality(RatedIn(g, years_range[1], years_range[2])) >= 10
        /\ Cardinality(RatedIn(g, 0, years_range[1] - 1)) >= 10}

\* C4: the genres with a row are exactly those with at least 10 non-null
\* ratings in both the recent subset (start <= year <= end) and the historical
\* subset (year < start), one row each; the call fails only when there is no
\* such genre.
C4_RowIffFloorOnBothSides ==
    /\ GenreReturned =>
        /\ {result.rows[a].genre : a \in 1..Len(result.rows)}
               = Qualifying(result.years_range)
        /\ Len(result.rows) = Cardinality(Qualifying(result.years_range))
    /\ (result.op = "analyze_genre_anomalies" /\ result.raised # "none")
           => Qualifying(result.years_range) = {}

\* C4 witness: a table with a row for one genre and none for a genre that has
\* 10 recent ratings but fewer than 10 historical ones
C4_Witness ==
    /\ GenreReturned
    /\ Len(result.rows) = 1
    /\ \E g \in {"Drama", "Documentary"} :
        /\ \A a \in 1..Len(result.rows) : result.rows[a].genre # g
        /\ Cardinality(RatedIn(g, result.years_range[1], result.years_range[2])) >= 10
        /\ Cardinality(RatedIn(g, 0, result.years_range[1] - 1)) \in 1..9

\* the movies of the dataset with a rating, a year in lo..hi and genre g
\* somewhere in their genre list
MoviesOf(g, lo, hi) ==
    {i \in 1..Len(master) :
        /\ g \in Range(master[i].genres)
        /\ master[i].imdb_rating # NaN
        /\ master[i].year # NaN
        /\ master[i].year \in lo..hi}

\* C13: for every genre of the result, recent_count (historical_count) is the
\* number of rated recent (historical) movies whose genre list contains the
\* genre, at whatever position (a genre list names no genre twice, as in the
\* IMDb files).
C13_MemberOfEachGenre ==
    GenreReturned =>
        \A a \in 1..Len(result.rows) :
            LET r == result.rows[a]
            IN  /\ r.recent_count = Cardinality(
                       MoviesOf(r.genre, result.years_range[1], result.years_range[2]))
                /\ r.historical_count = Cardinality(
                       MoviesOf(r.genre, 0, result.years_range[1] - 1))

\* C13 witness: a table with rows for two genres, for a dataset with movies
\* that carry both, in either order
C13_Witness ==
    /\ GenreReturned
    /\ Len(result.rows) = 2
    /\ \E i, j \in 1..Len(master) :
        /\ master[i].genres = <<"Drama", "Documentary">>
        /\ master[j].genres = <<"Documentary", "Drama">>

-----------------------------------------------------------------------------
(* Claims about detect_vote_clustering (specification SpecBenford).        *)

BenfordReturned == result.op = "detect_vote_clustering" /\ result.raised = "none"

\* the rows counted by the Benford analysis with leading digit in ds: in the
\* years of the range, with a vote count that does not start with 0
LeadBy(ds) ==
    {i \in 1..Len(master) :
        /\ master[i].year # NaN
        /\ master[i].year \in result.years_range[1]..result.years_range[2]
        /\ master[i].num_votes # NaN
        /\ \E d \in ds, e \in 0..5 :
            master[i].num_votes \in (d * 10^e)..((d + 1) * 10^e - 1)}

\* C5: entry i of benford_observed is the percentage of the counted records
\* whose leading digit is i, and 0 for a digit no record has, wherever the
\* missing digits lie.
C5_ObservedByDigit ==
    BenfordReturned =>
        \A i \in 1..9 :
            LET n == Cardinality(LeadBy({i}))
                total == Cardinality(LeadBy(1..9))
            IN  /\ n = 0 => result.benford_observed[i].v = RInt(0)
                /\ n > 0 => RMul(result.benford_observed[i].v, RInt(total)) = RInt(100 * n)

-----------------------------------------------------------------------------
(* Claims about the analysis functions together (specification             *)
(* SpecAnalyses).                                                          *)

\* C6: a call of an analysis function leaves the caller's dataset with the
\* same columns and the same values as before the call.
C6_InputNotMutated ==
    [][(result.op = "none" /\ result'.op # "none")
           => (master' = master /\ columns' = columns)]_vars

-----------------------------------------------------------------------------
(* Claims about detect_franchise_coordination (specification               *)
(* SpecFranchise).                                                         *)

FranchiseReturned ==
    result.op = "detect_franchise_coordination" /\ result.raised = "none"

\* the (row, list position) pairs of the dataset that give genre g a rating
\* in the recent years, among the tagged (or the untagged) rows
RatedTagged(g, tagged) ==
    {p \in (1..Len(master)) \X (1..2) :
        /\ p[2] <= Len(master[p[1]].genres)
        /\ master[p[1]].genres[p[2]] = g
        /\ master[p[1]].imdb_rating # NaN
        /\ master[p[1]].year # NaN
        /\ master[p[1]].year \in result.years_range[1]..result.years_range[2]
        /\ (p[1] \in Range(result.tagged)) = tagged}

\* C11: every row is for one of Action, Sci-Fi, Adventure, Thriller, Drama
\* (each at most once) with at least 5 tagged and at least 10 untagged rated
\* recent records, and its suspicious flag is true if and only if
\* franchise_mean - standalone_mean > 0.3 and p_value < 0.05.
C11_FranchiseRows ==
    FranchiseReturned =>
        /\ \A a \in 1..Len(result.rows) :
            LET r == result.rows[a]
                diff == RSub(r.franchise_mean.v, r.standalone_mean.v)
            IN  /\ r.genre \in {"Action", "Sci-Fi", "Adventure", "Thriller", "Drama"}
                /\ Cardinality(RatedTagged(r.genre, TRUE)) >= 5
                /\ Cardinality(RatedTagged(r.genre, FALSE)) >= 10
                /\ r.suspicious <=>
                       (/\ 10 * diff.n > 3 * diff.d
                        /\ r.p_value # NaN /\ r.p_value < 50)
        /\ \A a, b \in 1..Len(result.rows) :
            a # b => result.rows[a].genre # result.rows[b].genre

\* C11 witness: a table with a genre whose difference exceeds 0.3 but whose
\* p-value is 0.05, for a dataset in which Comedy has 5 tagged and 10 untagged
\* rated recent records
C11_Witness ==
    /\ FranchiseReturned
    /\ \E a \in 1..Len(result.rows) :
        /\ ~result.rows[a].suspicious
        /\ result.rows[a].p_value = 50
        /\ FGt(result.rows[a].difference, Fin(Rat(3, 10)))
    /\ Cardinality(RatedTagged("Comedy", TRUE)) >= 5
    /\ Cardinality(RatedTagged("Comedy", FALSE)) >= 10

\* title contains keyword as a literal substring, case ignored
ContainsLiterally(title, keyword) ==
    /\ title # NullTitle
    /\ \E pos \in 1..(Len(title) - Len(keyword) + 1) :
        \A j \in 1..Len(keyword) : lower(keyword[j]) = lower(title[pos + j - 1])

\* C12: whatever the mapping, the call does not fail on a keyword, and a
\* recent record is tagged if and only if its title contains, as a literal
\* substring and case ignored, at least one keyword of the mapping.
C12_TaggedIffKeywordInTitle ==
    /\ result.op = "detect_franchise_coordination" => result.raised # "re.error"
    /\ FranchiseReturned =>
        \A i \in 1..Len(master) :
            (master[i].year # NaN
             /\ master[i].year \in result.years_range[1]..result.years_range[2]) =>
                (i \in Range(result.tagged) <=>
                    \E f \in 1..Len(result.franchise_map) :
                        \E keyword \in Range(result.franchise_map[f].keywords) :
                            ContainsLiterally(master[i].title, keyword))

-----------------------------------------------------------------------------
(* Claims about the two detectors' tables (specification SpecDetectors).   *)

\* x < y for two values s * sqrt(v), by the order of s * v
RootBelow(x, y) == x.s * x.v.n * y.v.d < y.s * y.v.n * x.v.d

\* C14: the rows of the genre table are in non-increasing order of cohens_d
\* and the rows of the franchise table in non-increasing order of difference.
C14_RowsDescending ==
    /\ GenreReturned =>
        \A a, b \in 1..Len(result.rows) :
            a < b => (/\ result.rows[a].cohens_d.k = "fin"
                      /\ result.rows[b].cohens_d.k = "fin"
                      /\ ~RootBelow(result.rows[a].cohens_d, result.rows[b].cohens_d))
    /\ FranchiseReturned =>
        \A a, b \in 1..Len(result.rows) :
            a < b => (/\ result.rows[a].difference.k = "fin"
                      /\ result.rows[b].difference.k = "fin"
                      /\ ~RLt(result.rows[a].difference.v, result.rows[b].difference.v))

\* C14 witness: a franchise table of two genres with different differences
C14_Witness ==
    /\ FranchiseReturned
    /\ Len(result.rows) = 2
    /\ RLt(result.rows[2].difference.v, result.rows[1].difference.v)

\* C15: every row of the genre table and of the franchise table has a
\* p_value, a t_statistic and a cohens_d that are not NaN.
C15_NoNaNStatistics ==
    (GenreReturned \/ FranchiseReturned) =>
        \A a \in 1..Len(result.rows) :
            /\ result.rows[a].p_value # NaN
            /\ ~isnan(result.rows[a].t_statistic)
            /\ ~isnan(result.rows[a].cohens_d)

-----------------------------------------------------------------------------
(* Claims about large genres (specification SpecGenreLarge).               *)

\* every rating of the rows idx lies within 1.0 of centre
WithinOneOf(centre, idx) ==
    \A i \in idx :
        /\ ~RLt(RAdd(centre.v, RInt(1)), RInt(master[i].imdb_rating))
        /\ ~RLt(RInt(master[i].imdb_rating + 1), centre.v)

\* C16: a genre with at least 50 rated movies in each period, ratings of
\* small spread in each period (down to none at all) and a recent mean
\* exactly 1.0 above the historical mean is flagged suspicious; a genre with
\* identical means is not.
C16_ShiftOfOneIsFlagged ==
    GenreReturned =>
        \A a \in 1..Len(result.rows) :
            LET row == result.rows[a]
                lo == result.years_range[1]
                hi == result.years_range[2]
            IN  /\ (/\ row.recent_count >= 50
                    /\ row.historical_count >= 50
                    /\ row.difference = Fin(RInt(1))
                    /\ WithinOneOf(row.recent_mean, MoviesOf(row.genre, lo, hi))
                    /\ WithinOneOf(row.historical_mean, MoviesOf(row.genre, 0, lo - 1)))
                   => row.suspicious
                /\ row.difference = Fin(RInt(0)) => ~row.suspicious

-----------------------------------------------------------------------------
(* Claims about the labels (specification SpecLabels).                     *)

\* |x| < a/b for x = +-sqrt(v), finite
AbsBelow(x, a, b) == x.k = "fin" /\ x.v.n * b * b < a * a * x.v.d

\* C17: _effect_size_label answers one of the four labels for every value:
\* 'negligible' for |d| < 0.2, 'small' for 0.2 <= |d| < 0.5, 'medium' for
\* 0.5 <= |d| < 0.8, 'large' for |d| >= 0.8, and the same for d and -d.
C17_EffectSizeLabel ==
    result.op = "_effect_size_label" =>
        LET d == result.cohens_d
        IN  /\ result.label \in {"negligible", "small", "medium", "large"}
            /\ ~isnan(d) =>
                /\ result.label = "negligible" <=> AbsBelow(d, 1, 5)
                /\ result.label = "small" <=> ~AbsBelow(d, 1, 5) /\ AbsBelow(d, 1, 2)
                /\ result.label = "medium" <=> ~AbsBelow(d, 1, 2) /\ AbsBelow(d, 4, 5)
                /\ result.label = "large" <=> ~AbsBelow(d, 4, 5)
                /\ _effect_size_label([d EXCEPT !.s = -d.s]) = result.label

\* C17 witness: the label of a negative d between the two middle thresholds
C17_Witness ==
    /\ result.op = "_effect_size_label"
    /\ result.cohens_d.s = -1
    /\ result.label = "medium"

\* C18: manipulation_probability is 'HIGH' for p_value < 0.01, 'MEDIUM' for
\* 0.01 <= p_value < 0.05 and 'LOW' for every other p-value.
C18_ManipulationProbability ==
    result.op = "manipulation_probability" =>
        LET p == result.p_value
        IN  result.label = IF p # NaN /\ p < 10 THEN "HIGH"
                           ELSE IF p # NaN /\ 10 <= p /\ p < 50 THEN "MEDIUM"
                           ELSE "LOW"

\* C18 witness: the label of a p-value below both thresholds
C18_Witness ==
    /\ result.op = "manipulation_probability"
    /\ result.p_value = 5
    /\ result.label = "HIGH"

\* C19: _benford_verdict answers the 'STRONG evidence' verdict iff p < 0.01
\* and ratio > 10, the 'Benford violation' verdict iff p < 0.01 and
\* ratio <= 10, the 'round-number clustering' verdict iff p >= 0.01 and
\* ratio > 10, and the 'No strong evidence' verdict iff p >= 0.01 and
\* ratio <= 10.
C19_BenfordVerdict ==
    result.op = "_benford_verdict" =>
        LET low == result.p_value < 10
            over == result.clustering_ratio.v.n > 10 * result.clustering_ratio.v.d
            v == result.verdict
        IN  /\ v = "STRONG evidence of manipulation (Benford violation + round clustering)"
                <=> low /\ over
            /\ v = "Benford violation detected - suggests artificial voting patterns"
                <=> low /\ ~over
            /\ v = "Excessive round-number clustering - possible threshold gaming"
                <=> ~low /\ over
            /\ v = "No strong evidence of manipulation"
                <=> ~low /\ ~over

\* C19 witness: the verdict for a p-value below 0.01 and a ratio of exactly 10
C19_Witness ==
    /\ result.op = "_benford_verdict"
    /\ result.p_value = 9
    /\ result.clustering_ratio = Fin(RInt(10))
    /\ result.verdict = "Benford violation detected - suggests artificial voting patterns"

-----------------------------------------------------------------------------
(* Claims about leading digits (specification SpecDigits).                 *)

\* C20: when every leading digit 1..9 has one ninth of the counted records,
\* detect_vote_clustering answers p_value < 0.01 and the label 'HIGH'.
C20_UniformDigitsAreHigh ==
    (/\ BenfordReturned
     /\ result.total_movies > 0
     /\ \A d \in 1..9 : 9 * Cardinality(LeadBy({d})) = result.total_movies)
    => /\ result.p_value < 10
       /\ result.manipulation_probability = "HIGH"

\* C20 witness: a result for nine counted records, one for each leading digit
C20_Witness ==
    /\ BenfordReturned
    /\ result.total_movies = 9
    /\ \A d \in 1..9 : Cardinality(LeadBy({d})) = 1
    /\ result.manipulation_probability = "HIGH"

-----------------------------------------------------------------------------
(* Claims about suspicious_docs (specification SpecDocumentaries).         *)

DocumentaryReturned ==
    result.op = "analyze_documentary_manipulation" /\ result.raised = "none"

\* the documentaries of the dataset with a year in lo..hi
DocsOf(lo, hi) ==
    {i \in 1..Len(master) :
        /\ master[i].year # NaN
        /\ master[i].year \in lo..hi
        /\ "Documentary" \in Range(master[i].genres)}

\* those with a rating and a vote count
RatedDocsOf(lo, hi) ==
    {i \in DocsOf(lo, hi) : master[i].imdb_rating # NaN /\ master[i].num_votes # NaN}

\* rating / (num_votes / 1000)
EfficiencyOf(i) == Rat(1000 * master[i].imdb_rating, master[i].num_votes)

\* the efficiencies of the documentaries before the range, as a sequence
HistoricalEfficiencies ==
    LET rows == SelectSeq(Index(master),
                    LAMBDA i : i \in RatedDocsOf(0, result.years_range[1] - 1))
    IN  [j \in 1..Len(rows) |-> EfficiencyOf(rows[j])]

\* the recent documentaries whose efficiency is above the historical mean
\* plus twice the historical standard deviation
AboveThreshold ==
    LET m == rmean(HistoricalEfficiencies)
        v == rvar(HistoricalEfficiencies)
    IN  IF isnan(m) \/ isnan(v) THEN {}
        ELSE {i \in RatedDocsOf(result.years_range[1], result.years_range[2]) :
                /\ RLt(m.v, EfficiencyOf(i))
                /\ RLt(RMul(RInt(4), v.v),
                       RMul(RSub(EfficiencyOf(i), m.v), RSub(EfficiencyOf(i), m.v)))}

\* row i of the dataset is what entry e of suspicious_docs shows
ShownAs(i, e) ==
    /\ e.year = master[i].year
    /\ e.title = master[i].title
    /\ e.imdb_rating = master[i].imdb_rating
    /\ e.num_votes = master[i].num_votes
    /\ e.vote_efficiency = Fin(EfficiencyOf(i))

\* C21: suspicious_docs holds only recent documentaries whose efficiency is
\* strictly above the historical mean plus twice the historical standard
\* deviation, in non-increasing order of efficiency, and it holds the
\* min(20, k) most efficient of the k documentaries above the threshold.
C21_SuspiciousDocs ==
    DocumentaryReturned =>
        LET docs == result.suspicious_docs
            above == AboveThreshold
            k == Cardinality(above)
        IN  /\ \A a \in 1..Len(docs) :
                /\ \E i \in above : ShownAs(i, docs[a])
                /\ Cardinality({b \in 1..Len(docs) : docs[b] = docs[a]})
                       <= Cardinality({i \in above : ShownAs(i, docs[a])})
            /\ \A a, b \in 1..Len(docs) :
                a < b => ~RLt(docs[a].vote_efficiency.v, docs[b].vote_efficiency.v)
            /\ Len(docs) = IF k < 20 THEN k ELSE 20
            /\ \A i \in above :
                   (\E a \in 1..Len(docs) : RLt(docs[a].vote_efficiency.v, EfficiencyOf(i)))
                   => \E a \in 1..Len(docs) : ShownAs(i, docs[a])

\* C21 witness: more than twenty documentaries above the threshold, and a
\* list of twenty that goes down in efficiency
C21_Witness ==
    /\ DocumentaryReturned
    /\ result.suspicious_count > 20
    /\ Len(result.suspicious_docs) = 20
    /\ RLt(result.suspicious_docs[20].vote_efficiency.v,
           result.suspicious_docs[1].vote_efficiency.v)
    /\ Cardinality(DocsOf(result.years_range[1], result.years_range[2]))
           > result.suspicious_count

-----------------------------------------------------------------------------
(* Claims about analyze_high_rated_by_decade (specification SpecDecades).  *)

DecadesReturned ==
    result.op = "analyze_high_rated_by_decade" /\ result.raised = "none"

\* the records with a known year that pass the rating and the vote filter
PassingRecords ==
    {i \in 1..Len(master) :
        /\ master[i].year # NaN
        /\ master[i].imdb_rating # NaN /\ master[i].imdb_rating >= result.threshold
        /\ master[i].num_votes # NaN /\ master[i].num_votes >= result.min_votes}

\* C22: there is one row for every decade that holds a record with rating >=
\* threshold and num_votes >= min_votes, and its count is the number of such
\* records in the decade.
C22_RowForEveryDecade ==
    DecadesReturned =>
        \A i \in PassingRecords :
            LET d == master[i].year - (master[i].year % 10)
            IN  /\ Cardinality({a \in 1..Len(result.rows) : result.rows[a].decade = d}) = 1
                /\ \A a \in 1..Len(result.rows) :
                       result.rows[a].decade = d =>
                           result.rows[a].count =
                               Cardinality({j \in PassingRecords :
                                   master[j].year - (master[j].year % 10) = d})

-----------------------------------------------------------------------------
(* Claims about dataset preparation (specification SpecPrepare).           *)

\* C23: a dataset on which an analysis function has been called holds no
\* identifier twice, no rating outside [0, 10] and no negative vote count.
C23_PreparedDatasetIsValid ==
    result.op # "none" =>
        /\ \A i, j \in 1..Len(master) : i # j => master[i].imdb_id # master[j].imdb_id
        /\ \A i \in 1..Len(master) :
            /\ master[i].imdb_rating # NaN => master[i].imdb_rating \in 0..10
            /\ master[i].num_votes # NaN => master[i].num_votes >= 0

-----------------------------------------------------------------------------
(* Claims about year ranges (specification SpecRanges).                    *)

\* the records with a year in the range of the call
InRange ==
    {i \in 1..Len(master) :
        /\ master[i].year # NaN
        /\ master[i].year \in result.years_range[1]..result.years_range[2]}

\* C24: a call of one of the four detectors with a year range that is
\* inverted or holds no record ends with an InvalidRangeError.
C24_EmptyRangeIsRefused ==
    (/\ result.op \in {"analyze_genre_anomalies", "detect_vote_clustering",
                        "detect_franchise_coordination",
                        "analyze_documentary_manipulation"}
     /\ InRange = {})
    => result.raised = "InvalidRangeError"

-----------------------------------------------------------------------------
(* Claims about calls that skip every category (specification              *)
(* SpecDetectors).                                                         *)

\* the genres named in the dataset
GenresNamed == UNION {Range(master[i].genres) : i \in 1..Len(master)}

\* no genre has 10 ratings in the recent years and 10 in the years before
NoGenreMeetsFloor ==
    \A g \in GenresNamed :
        \/ Cardinality(RatedIn(g, result.years_range[1], result.years_range[2])) < 10
        \/ Cardinality(RatedIn(g, 0, result.years_range[1] - 1)) < 10

\* no allow-listed genre has the 15 recent ratings that 5 franchise and 10
\* standalone ratings take
NoFranchiseGenreMeetsFloor ==
    \A g \in {"Action", "Sci-Fi", "Adventure", "Thriller", "Drama"} :
        Cardinality(RatedIn(g, result.years_range[1], result.years_range[2])) < 15

\* C25: when every category falls below its minimum group sizes,
\* analyze_genre_anomalies and detect_franchise_coordination return an empty
\* table.
C25_AllSkippedGivesEmptyTable ==
    /\ (result.op = "analyze_genre_anomalies" /\ NoGenreMeetsFloor)
           => (result.raised = "none" /\ result.rows = <<>>)
    /\ (/\ result.op = "detect_franchise_coordination"
        /\ result.raised # "re.error"
        /\ NoFranchiseGenreMeetsFloor)
           => (result.raised = "none" /\ result.rows = <<>>)

-----------------------------------------------------------------------------
(* Claims about the era column (specification SpecEras).                   *)

\* C26: a movie with a known year gets the era whose label names its year:
\* 'Pre-1950' up to 1949, '1950-1979', '1980-1999', '2000-2009', '2010-2019'
\* for the years in those ranges, '2020+' from 2020 on.
C26_EraNamesTheYear ==
    (result.op = "load_master_with_metadata" /\ result.year # NaN) =>
        result.era = IF result.year <= 1949 THEN "Pre-1950"
                     ELSE IF result.year <= 1979 THEN "1950-1979"
                     ELSE IF result.year <= 1999 THEN "1980-1999"
                     ELSE IF result.year <= 2009 THEN "2000-2009"
                     ELSE IF result.year <= 2019 THEN "2010-2019"
                     ELSE "2020+"

-----------------------------------------------------------------------------
(* Claims about TMDbClient (specification SpecTMDb).                       *)

\* C27: no 10-second interval holds more than 40 of the client's HTTP
\* requests: the 40th request after any request is sent at least 10 seconds
\* after it (the requests are sent in the order of time).
C27_FortyPerTenSeconds ==
    \A a \in 1..(Len(result.sent) - TMDB_RATE_LIMIT) :
        result.sent[a + TMDB_RATE_LIMIT] >= result.sent[a] + 10

\* C29: a call of _request that has ended has returned a response, or None,
\* or has raised TMDbAPIError.
C29_RequestEndsAsDocumented ==
    (result.pc = "idle" /\ result.returned # "none")
        => result.returned \in {"json", "None", "TMDbAPIError"}

-----------------------------------------------------------------------------
(* Claims about fetch_imdb_top250_snapshot (specification SpecSnapshots).  *)

\* C28: the Top 250 that a call with force_refresh=True returns is parsed
\* from HTML downloaded during that call.
C28_ForceRefreshDownloads ==
    (result.calls > 0 /\ result.force_refresh /\ result.returned # <<>>)
        => result.returned[1].downloaded = result.calls

-----------------------------------------------------------------------------
(* Claims about the rows of analyze_genre_anomalies (SpecGenre).           *)

\* C30: every row of the genre table that is flagged suspicious carries the
\* effect size label 'medium' or 'large', so the logged count of suspicious
\* genres counts only genres with a medium or large effect.
C30_SuspiciousIsMediumOrLarge ==
    GenreReturned =>
        \A a \in 1..Len(result.rows) :
            result.rows[a].suspicious
                => result.rows[a].effect_size_label \in {"medium", "large"}

\* C30 witness: a table with a flagged genre, and a genre of small or
\* negligible effect whose p-value is below 0.01
C30_Witness ==
    /\ GenreReturned
    /\ \E a, b \in 1..Len(result.rows) :
        /\ result.rows[a].suspicious
        /\ result.rows[b].effect_size_label \in {"negligible", "small"}
        /\ result.rows[b].p_value # NaN /\ result.rows[b].p_value < 10

====
